---------------------------- MODULE Spec2Model ----------------------------
(***************************************************************************)
(* PySearchTool: the search engine of src/src/core.py (SearchEngine) as a  *)
(* state machine.  One coordinator thread runs SearchEngine.run; the       *)
(* ThreadPoolExecutor's worker threads run SearchEngine._search_content,   *)
(* one call per candidate; the caller may set the shared stop_event at any *)
(* time.                                                                   *)
(*                                                                         *)
(* Abstractions.  A file name is a record [dot, stem, suffix]: whether it  *)
(* starts with ".", its stem, and its extension(s).  A glob pattern is the *)
(* suffix s of the pattern "*s" ("" is the pattern "*").  A line of text   *)
(* is the number of occurrences of the compiled pattern in it.  A file's   *)
(* size is its st_size in bytes and nul is the 1-based offset of its first *)
(* NUL byte (0: none).                                                     *)
(***************************************************************************)
EXTENDS Integers, Sequences, FiniteSets, TLC

(* ------------------------------ bounds -------------------------------- *)
\* Largest max_matches option the model draws.
MaxCeiling == 2
\* Most lines a text file of the model has.
MaxLines == 2
\* Most files a replace job has.
MaxJobFiles == 2
\* Most times the same replace job is applied.
MaxRuns == 2
\* Most files the tree of the many-files search has.
ManyFiles == 100

(* ------------------------- program constants -------------------------- *)
MAX_FILE_SIZE_MB == 10
DEFAULT_MAX_MATCHES == 5000
BLOCK_SIZE == 1024
PROGRESS_EVERY == 50
MAX_WORKERS == 32
EXTRA_WORKERS == 4
CPU_COUNT == 1

SizeCap == MAX_FILE_SIZE_MB * 1024 * 1024

Min(a, b) == IF a < b THEN a ELSE b

\* workers = min(32, (os.cpu_count() or 1) + 4)
Workers == Min(MAX_WORKERS, CPU_COUNT + EXTRA_WORKERS)

(* ------------------------------- names -------------------------------- *)
Name(dot, stem, suffix) == [dot |-> dot, stem |-> stem, suffix |-> suffix]

NoName == Name(FALSE, "", "")

\* name.startswith(".")
StartsWithDot(name) == name.dot

\* The directory names pruned when use_default_ignores is set.
DefaultIgnores ==
    { Name(TRUE, "git", ""), Name(FALSE, "venv", ""),
      Name(FALSE, "__pycache__", ""), Name(FALSE, "node_modules", ""),
      Name(TRUE, "idea", ""), Name(TRUE, "vscode", "") }

\* name.endswith((".zip", ".tar.gz", ".tgz"))
IsArchiveName(name) == name.suffix \in {".zip", ".tar.gz", ".tgz"}

\* pathlib's Path.suffix: the last extension only.
PathSuffix(name) == IF name.suffix = ".tar.gz" THEN ".gz" ELSE name.suffix

\* fnmatch.fnmatch(name, pat) for the patterns "*" and "*<suffix>".
fnmatch(name, pat) == pat = "" \/ name.suffix = pat

(* ---------------------------- file system ----------------------------- *)
\* A zip entry: is_dir, whether z.open/read of it succeeds, its content and
\* the line (0: none) at which the scan of it raises.
Member(name, isDir, readable, size, nul, lines, scanFail) ==
    [name |-> name, is_dir |-> isDir, readable |-> readable, size |-> size,
     nul |-> nul, lines |-> lines, scanFail |-> scanFail]

\* A regular file: statOk (path.stat() succeeds), readable (open succeeds),
\* zipOk (the file opens as the archive its name says) and the entries of
\* its listing.
File(name, statOk, readable, size, nul, lines, scanFail, zipOk, members) ==
    [name |-> name, statOk |-> statOk, readable |-> readable, size |-> size,
     nul |-> nul, lines |-> lines, scanFail |-> scanFail, zipOk |-> zipOk,
     members |-> members]

Text(name, lines) == File(name, TRUE, TRUE, 64, 0, lines, 0, FALSE, << >>)

\* A zip archive read as a plain file is binary: its local file header
\* ("PK\x03\x04\x14\x00...") holds NUL bytes.
Zip(name, members) == File(name, TRUE, TRUE, 512, 6, << >>, 0, TRUE, members)

APy == Name(FALSE, "a", ".py")
BTxt == Name(FALSE, "b", ".txt")
CPy == Name(FALSE, "c", ".py")
HidPy == Name(TRUE, "env", ".py")
PackZip == Name(FALSE, "pack", ".zip")
SrcTgz == Name(FALSE, "src", ".tar.gz")
HelloTxt == Name(FALSE, "hello", ".txt")
DocsDir == Name(FALSE, "docs/", "")

\* The texts of up to MaxLines lines, each with or without an occurrence.
TextLines == UNION { [1 .. n -> {0, 1}] : n \in 0 .. MaxLines }

\* The variants of one plain file the model draws: every text, a line with
\* two occurrences, a NUL byte at the end of the first block and just past
\* it, a size at the cap and just over it, an unreadable file, a file that is
\* gone when the task runs, and a text whose scan raises at line 2.
PlainVariants(name) ==
    { Text(name, l) : l \in TextLines }
    \cup
    { Text(name, <<0, 2>>),
      File(name, TRUE, TRUE, 64, BLOCK_SIZE, <<1>>, 0, FALSE, << >>),
      File(name, TRUE, TRUE, 64, BLOCK_SIZE + 1, <<1>>, 0, FALSE, << >>),
      File(name, TRUE, TRUE, SizeCap, 0, <<1>>, 0, FALSE, << >>),
      File(name, TRUE, TRUE, SizeCap + 1, 0, <<1>>, 0, FALSE, << >>),
      File(name, TRUE, FALSE, 64, 0, <<1>>, 0, FALSE, << >>),
      File(name, FALSE, FALSE, 64, 0, <<1>>, 0, FALSE, << >>),
      File(name, TRUE, TRUE, 64, 0, <<1, 1>>, 2, FALSE, << >>) }

\* The variants of the archive pack.zip the model draws: with a directory
\* entry, with a binary, an oversized or an unextractable member, a text file
\* that is no zip archive, and a gzip-tar name.
ZipVariants ==
    { Zip(PackZip, << Member(DocsDir, TRUE, TRUE, 0, 0, << >>, 0),
                      Member(HelloTxt, FALSE, TRUE, 7, 0, <<1>>, 0) >>),
      Zip(PackZip, << Member(HelloTxt, FALSE, TRUE, 64, 3, <<1>>, 0) >>),
      Zip(PackZip, << Member(HelloTxt, FALSE, TRUE, SizeCap + 1, 0, <<1>>, 0) >>),
      Zip(PackZip, << Member(HelloTxt, FALSE, FALSE, 7, 0, <<1>>, 0) >>),
      File(PackZip, TRUE, TRUE, 64, 0, <<1>>, 0, FALSE, << >>),
      File(SrcTgz, TRUE, TRUE, 64, 0, <<1>>, 0, FALSE, << >>) }

\* The names the one subdirectory of the root may have.
SubDirNames ==
    { Name(FALSE, "pkg", ""), Name(TRUE, "cache", ""), Name(FALSE, "venv", "") }

\* A tree: the root's files, the subdirectory's name and its files.
Tree(files, subName, subFiles) ==
    [files |-> files, subName |-> subName, subFiles |-> subFiles]

(* ------------------------------ options ------------------------------- *)
\* The pattern text: "(" does not compile as a regular expression.
Patterns == {"needle", "("}

\* re.compile(pattern) succeeds.
Compiles(pattern) == pattern # "("

GlobSets ==
    { [include |-> {}, exclude |-> {}],
      [include |-> {".py", ".zip"}, exclude |-> {}],
      [include |-> {".txt"}, exclude |-> {}],
      [include |-> {}, exclude |-> {".txt"}] }


\* opts: the dict handed to SearchEngine; include_hidden, use_default_ignores
\* and search_archives are falsy when absent.
Opts(regex, text, hidden, ignores, archives, ceiling) ==
    [regex |-> regex, text |-> text, include_hidden |-> hidden,
     use_default_ignores |-> ignores, search_archives |-> archives,
     max_matches |-> ceiling]

\* The ceilings drawn: 1..MaxCeiling and the default of a dict without the key.
Ceilings == (1 .. MaxCeiling) \cup {DEFAULT_MAX_MATCHES}

PlainTrees ==
    { Tree(<<a, Text(BTxt, <<1>>)>>, Name(FALSE, "pkg", ""), << >>) :
          a \in PlainVariants(APy) }

PrunedTrees ==
    { Tree(<<Text(HidPy, <<1>>)>>, d, <<Text(CPy, <<0, 1>>)>>) :
          d \in SubDirNames }

ArchiveTrees ==
    { Tree(<<z, Text(BTxt, <<1>>)>>, Name(FALSE, "pkg", ""), << >>) :
          z \in ZipVariants }

\* Three text files, so that a task can still be queued when the ceiling is hit.
CrowdTrees ==
    { Tree(<<Text(APy, <<1>>), Text(BTxt, <<1>>)>>, Name(FALSE, "pkg", ""),
           <<Text(CPy, <<0, 1>>)>>) }

Trees == PlainTrees \cup PrunedTrees \cup ArchiveTrees \cup CrowdTrees

\* The searches the model starts, [fs, opts, globs]: every tree under every
\* combination of the options with a literal pattern, and one tree under
\* every pattern kind.
Searches ==
    { [fs |-> t, opts |-> Opts(FALSE, "needle", h, i, a, c), globs |-> g] :
          t \in Trees, h \in BOOLEAN, i \in BOOLEAN, a \in BOOLEAN,
          c \in Ceilings, g \in GlobSets }
    \cup
    { [fs |-> Tree(<<Text(APy, <<1>>)>>, Name(FALSE, "pkg", ""), << >>),
       opts |-> Opts(r, p, FALSE, TRUE, FALSE, 1),
       globs |-> [include |-> {}, exclude |-> {}]] :
          r \in BOOLEAN, p \in Patterns }

(* ------------------------------- state -------------------------------- *)
VARIABLES
    fsys,        \* the directory tree searched
    opts,        \* self.opts
    include,     \* self.include
    exclude,     \* self.exclude
    stop_event,  \* the shared threading.Event
    pc,          \* where the calling thread is
    walk,        \* the directories os.walk has still to yield
    candidates,  \* run's list of (path, is_archive, member)
    futures,     \* per candidate: its task in the pool, << >> before submission
    yielded,     \* the futures as_completed has yielded
    stats,       \* self.stats
    out_q,       \* the output queue
    walked,      \* history: the directories whose entries were enumerated
    extStop,     \* history: the caller has set stop_event
    lastLen      \* history: len(res) of the result added last

\* The replace side: ReplacementWorker (src/src/ui.py) and the files it edits
\* through utils.read_file_lines and utils.atomic_write.
VARIABLES
    disk,        \* the files of the job's directory, by name
    temps,       \* the files NamedTemporaryFile has created there, in order
    find_opts,   \* self.find_opts
    repl_text,   \* self.repl_text
    backup,      \* self.backup
    file_map,    \* the values of self.file_map, in the dict's order
    progress_q,  \* self.progress_q
    count,       \* run's local count
    idx,         \* the number of files the loop has dealt with
    rpc,         \* where the worker thread is
    aw,          \* the call of atomic_write in progress: its arguments and place
    log,         \* history: the file operations of the current run, in order
    runs,        \* history: the number of workers started on the job
    disk0        \* history: the files as the current run (or call) found them

\* The variables of the search side and of the replace side.
svars == << fsys, opts, include, exclude, stop_event, pc, walk, candidates,
            futures, yielded, stats, out_q, walked, extStop, lastLen >>

rvars == << disk, temps, find_opts, repl_text, backup, file_map, progress_q,
            count, idx, rpc, aw, log, runs, disk0 >>

vars == << svars, rvars >>

config == << fsys, opts, include, exclude >>

(* --------------------------- data of the run -------------------------- *)
Path(dir, name) == [dir |-> dir, name |-> name]

Candidate(path, isArchive, member) ==
    [path |-> path, is_archive |-> isArchive, member |-> member]

\* Match(path, line_no, preview, is_archive, member); the preview is not modelled.
Match(path, lineNo, isArchive, member) ==
    [path |-> path, line_no |-> lineNo, is_archive |-> isArchive, member |-> member]

NoMatch == Match(Path(<< >>, NoName), 0, FALSE, NoName)

\* An event (kind, payload) of the output queue.  A progress or done event
\* carries self.stats; scanned and total record its counters at the put.
Event(kind, m, st) ==
    [kind |-> kind, match |-> m, scanned |-> st.scanned_files,
     total |-> st.total_candidates]

SearchStats(scanned, total, found) ==
    [scanned_files |-> scanned, total_candidates |-> total, matches_found |-> found]

\* A task of the pool: pending (queued), running (pos lines scanned, res the
\* matches so far) or finished (res its result).  raised: an exception was
\* swallowed by the except clause.
Task(state, pos, res, late, raised) ==
    [state |-> state, pos |-> pos, res |-> res, late |-> late, raised |-> raised]

\* late: stop_event was already set when the task was submitted, and when it
\* began to execute.
Late(submit, start) == [submit |-> submit, start |-> start]


(* ------------------------- SearchEngine.__init__ ---------------------- *)
\* Mutant of CompileRegex: the raw text is always escaped, so nothing raises.
CompileRegexLenient(o) == TRUE

\* The constructor's try block: True when a pattern compiles, False when
\* re.error is raised.  re.escape(pattern), with or without \b, always
\* compiles; only the regex branch hands the raw text to re.compile.
CompileRegex(o) == IF o.regex THEN Compiles(o.text) ELSE TRUE

(* ------------------------ SearchEngine._matches_globs ----------------- *)
_matches_globs(name) ==
    IF include # {} /\ ~(\E p \in include : fnmatch(name, p)) THEN FALSE
    ELSE IF \E p \in exclude : fnmatch(name, p) THEN FALSE
    ELSE TRUE

(* ---------------------- SearchEngine.run: scan phase ------------------ *)
\* The entries os.walk yields for directory dir of the tree.
DirNames(dir) == IF dir = << >> THEN << fsys.subName >> ELSE << >>

FileNames(dir) == IF dir = << >> THEN fsys.files ELSE fsys.subFiles

RECURSIVE DropHidden(_)
\* [d for d in dirnames if not d.startswith(".")]
DropHidden(names) ==
    IF names = << >> THEN << >>
    ELSE (IF StartsWithDot(Head(names)) THEN << >> ELSE << Head(names) >>)
         \o DropHidden(Tail(names))

RECURSIVE DropIgnored(_)
\* [d for d in dirnames if d not in {".git", "venv", ...}]
DropIgnored(names) ==
    IF names = << >> THEN << >>
    ELSE (IF Head(names) \in DefaultIgnores THEN << >> ELSE << Head(names) >>)
         \o DropIgnored(Tail(names))

\* Mutant of PruneDirs: only the hidden directories are pruned.
PruneDirsHiddenOnly(names) ==
    IF ~opts.include_hidden THEN DropHidden(names) ELSE names

\* dirnames[:] after both prunings of the loop body.
PruneDirs(names) ==
    LET shown == IF ~opts.include_hidden THEN DropHidden(names) ELSE names
    IN IF opts.use_default_ignores THEN DropIgnored(shown) ELSE shown

RECURSIVE ZipEntries(_, _)
\* for info in z.infolist(): the entries that become candidates of archive path.
ZipEntries(path, infos) ==
    IF infos = << >> THEN << >>
    ELSE LET info == Head(infos)
         IN (IF ~info.is_dir /\ _matches_globs(info.name)
             THEN << Candidate(path, TRUE, info.name) >>
             ELSE << >>) \o ZipEntries(path, Tail(infos))

\* The try block of the archive scan: only .zip is listed, and a failure to open
\* the archive is swallowed.
ListArchive(path, f) ==
    IF f.name.suffix = ".zip"
    THEN IF f.zipOk THEN ZipEntries(path, f.members) ELSE << >>
    ELSE << >>

\* Mutant of FileCandidates: archives are listed whatever search_archives says.
FileCandidatesAlwaysExpand(dir, f) ==
    IF ~opts.include_hidden /\ StartsWithDot(f.name) THEN << >>
    ELSE IF ~_matches_globs(f.name) THEN << >>
    ELSE << Candidate(Path(dir, f.name), FALSE, NoName) >>
         \o (IF IsArchiveName(f.name)
             THEN ListArchive(Path(dir, f.name), f)
             ELSE << >>)

\* The body of "for name in filenames" for one file.
FileCandidates(dir, f) ==
    IF ~opts.include_hidden /\ StartsWithDot(f.name) THEN << >>
    ELSE IF ~_matches_globs(f.name) THEN << >>
    ELSE << Candidate(Path(dir, f.name), FALSE, NoName) >>
         \o (IF opts.search_archives /\ IsArchiveName(f.name)
             THEN ListArchive(Path(dir, f.name), f)
             ELSE << >>)

RECURSIVE DirCandidates(_, _)
DirCandidates(dir, files) ==
    IF files = << >> THEN << >>
    ELSE FileCandidates(dir, Head(files)) \o DirCandidates(dir, Tail(files))

RECURSIVE SubPaths(_, _)
\* The directories os.walk descends into from dir, in order.
SubPaths(dir, names) ==
    IF names = << >> THEN << >>
    ELSE << Append(dir, Head(names)) >> \o SubPaths(dir, Tail(names))

(* ---------------------- SearchEngine._search_content ------------------ *)
\* The file of the tree at path.
FileAt(path) ==
    LET fs == FileNames(path.dir)
    IN fs[CHOOSE i \in 1 .. Len(fs) : fs[i].name = path.name]

\* The entry of archive f named member.
MemberAt(f, member) ==
    f.members[CHOOSE i \in 1 .. Len(f.members) : f.members[i].name = member]

\* Mutant of is_binary_file: the block read is one byte short.
is_binary_fileShortBlock(f) ==
    IF f.readable THEN f.nul >= 1 /\ f.nul < BLOCK_SIZE ELSE TRUE

\* utils.is_binary_file: a NUL byte in the first block, or unreadable.
is_binary_file(f) ==
    IF f.readable THEN f.nul >= 1 /\ f.nul <= BLOCK_SIZE ELSE TRUE

\* What the code before the line loop does for candidate c: it leaves lines to
\* scan ("scan"), returns [] ("return") or raises into except ("raise").
\* scanFail is the line at which regex.search would raise (0: never).  The
\* gzip-tar branch is never entered from run, which lists zip entries only;
\* extractfile gives None, and no lines, for an entry that is no file.
Opened(how, lines, scanFail) == [how |-> how, lines |-> lines, scanFail |-> scanFail]

ReadLines(c) ==
    LET f == FileAt(c.path)
    IN IF c.is_archive
       THEN IF PathSuffix(c.path.name) = ".zip"
            THEN IF ~f.zipOk THEN Opened("raise", << >>, 0)
                 ELSE LET m == MemberAt(f, c.member)
                      IN IF m.readable THEN Opened("scan", m.lines, m.scanFail)
                         ELSE Opened("raise", << >>, 0)
            ELSE IF c.path.name.suffix \in {".tar.gz", ".tgz"}
            THEN IF ~f.zipOk THEN Opened("raise", << >>, 0)
                 ELSE LET m == MemberAt(f, c.member)
                      IN IF m.is_dir THEN Opened("scan", << >>, 0)
                         ELSE IF m.readable THEN Opened("scan", m.lines, m.scanFail)
                         ELSE Opened("raise", << >>, 0)
            ELSE Opened("scan", << >>, 0)
       ELSE IF ~f.statOk THEN Opened("raise", << >>, 0)
            ELSE IF f.size > SizeCap THEN Opened("return", << >>, 0)
            ELSE IF is_binary_file(f) THEN Opened("return", << >>, 0)
            ELSE IF ~f.readable THEN Opened("raise", << >>, 0)
            ELSE Opened("scan", f.lines, f.scanFail)

\* self.regex.search(line): the line holds an occurrence of the pattern.
RegexSearch(line) == line > 0


(* ====================================================================== *)
(* The replace side: texts, matchers and files                            *)
(* ====================================================================== *)
\* A text is a sequence of characters.  A file's content is a sequence of
\* bytes, written as the characters they encode; InvalidByte is a byte that
\* is no UTF-8, ReplacementChar the character U+FFFD.
InvalidByte == "xFF"

ReplacementChar == "uFFFD"

Foo == << "f", "o", "o" >>

Baz == << "b", "a", "z" >>

FooFoo == << "f", "o", "o", "f", "o", "o" >>

FooBarFoo == << "f", "o", "o", " ", "b", "a", "r", " ", "f", "o", "o" >>

BazBarBaz == << "b", "a", "z", " ", "b", "a", "r", " ", "b", "a", "z" >>

\* A template with a reference to a group that no pattern drawn has.
BadRef == << "\\", "1" >>

\* os.linesep, which a text-mode write puts for "\n" (POSIX).
LineSep == << "\n" >>

RECURSIVE Decode(_)
\* What open(encoding="utf-8", errors="replace") in text mode makes of the
\* bytes: U+FFFD for an invalid byte, "\n" for "\r\n" and for "\r".
Decode(bytes) ==
    IF bytes = << >> THEN << >>
    ELSE IF Head(bytes) = InvalidByte
    THEN << ReplacementChar >> \o Decode(Tail(bytes))
    ELSE IF Head(bytes) = "\r"
    THEN << "\n" >> \o (IF Len(bytes) > 1 /\ bytes[2] = "\n"
                        THEN Decode(Tail(Tail(bytes)))
                        ELSE Decode(Tail(bytes)))
    ELSE << Head(bytes) >> \o Decode(Tail(bytes))

RECURSIVE Encode(_)
\* What tf.write of a text-mode UTF-8 file stores: os.linesep for "\n".
Encode(text) ==
    IF text = << >> THEN << >>
    ELSE (IF Head(text) = "\n" THEN LineSep ELSE << Head(text) >>)
         \o Encode(Tail(text))

RECURSIVE SplitLines(_, _)
\* readlines(): the text cut after each "\n", line ends kept; cur is the line
\* begun.
SplitLines(text, cur) ==
    IF text = << >> THEN (IF cur = << >> THEN << >> ELSE << cur >>)
    ELSE IF Head(text) = "\n"
    THEN << Append(cur, "\n") >> \o SplitLines(Tail(text), << >>)
    ELSE SplitLines(Tail(text), Append(cur, Head(text)))

RECURSIVE Join(_)
\* "".join(lines)
Join(lines) ==
    IF lines = << >> THEN << >> ELSE Head(lines) \o Join(Tail(lines))

\* str.lower() of one character, as re.IGNORECASE compares.
Fold(c) == IF c = "F" THEN "f" ELSE IF c = "B" THEN "b" ELSE c

\* \w: letters, digits and the underscore.
IsWordChar(c) == c \in {"f", "o", "b", "a", "r", "z", "F", "B", "1"}

\* A compiled matcher: its term, whether "." and "(" are regex syntax
\* (meta), re.IGNORECASE (fold), the \b...\b wrapping (whole).
Matcher(term, meta, fold, whole) ==
    [term |-> term, meta |-> meta, fold |-> fold, whole |-> whole]

\* re.compile(term) succeeds: of the regex syntax drawn only an unclosed "("
\* does not compile.
RegexCompiles(term) == \A k \in 1 .. Len(term) : term[k] # "("

\* The character at position p of the text, "" outside it.
CharAt(text, p) == IF p >= 1 /\ p <= Len(text) THEN text[p] ELSE ""

\* \b at position p: a word character on exactly one side.
Boundary(text, p) ==
    IsWordChar(CharAt(text, p - 1)) # IsWordChar(CharAt(text, p))

\* The k-th unit of the matcher's term matches character c.
UnitMatches(m, k, c) ==
    IF m.meta /\ m.term[k] = "." THEN c # "\n"
    ELSE IF m.fold THEN Fold(m.term[k]) = Fold(c)
    ELSE m.term[k] = c

\* The matcher matches the text at position i.
MatchAt(text, i, m) ==
    /\ i + Len(m.term) - 1 <= Len(text)
    /\ \A k \in 1 .. Len(m.term) : UnitMatches(m, k, text[i + k - 1])
    /\ m.whole => Boundary(text, i) /\ Boundary(text, i + Len(m.term))

\* Mutant of Sub: only the first match is replaced (count=1).
SubFirstOnly(text, i, m, repl) ==
    LET hits == { p \in i .. Len(text) + 1 : MatchAt(text, p, m) }
    IN IF hits = {} THEN SubSeq(text, i, Len(text))
       ELSE LET p == CHOOSE q \in hits : \A r \in hits : q <= r
            IN SubSeq(text, i, p - 1) \o repl
               \o SubSeq(text, p + Len(m.term), Len(text))

RECURSIVE Sub(_, _, _, _)
\* rx.sub(repl, text), re.sub(re.escape(term), repl, text) and
\* text.replace(term, repl) from position i on: the leftmost matches that do
\* not overlap are replaced; an empty match takes no character.
Sub(text, i, m, repl) ==
    IF i > Len(text) THEN (IF MatchAt(text, i, m) THEN repl ELSE << >>)
    ELSE IF MatchAt(text, i, m)
    THEN IF m.term = << >>
         THEN repl \o << text[i] >> \o Sub(text, i + 1, m, repl)
         ELSE repl \o Sub(text, i + Len(m.term), m, repl)
    ELSE << text[i] >> \o Sub(text, i + 1, m, repl)

RECURSIVE Occurrences(_, _, _)
\* The number of matches re.finditer gives from position i on.
Occurrences(text, i, m) ==
    IF i > Len(text) THEN (IF MatchAt(text, i, m) THEN 1 ELSE 0)
    ELSE IF MatchAt(text, i, m)
    THEN 1 + Occurrences(text, IF m.term = << >> THEN i + 1 ELSE i + Len(m.term), m)
    ELSE Occurrences(text, i + 1, m)

\* re's template of a replacement text raises re.error: a backslash that
\* ends it or stands before a digit naming no group.  (The texts drawn hold
\* no other escape.)
TemplateRaises(repl) ==
    \E k \in 1 .. Len(repl) :
        /\ repl[k] = "\\"
        /\ k = Len(repl) \/ repl[k + 1] = "1"

(* ------------------------------- files -------------------------------- *)
\* A file of the job's directory: whether it exists, whether open() for
\* reading succeeds, its bytes, and the step of atomic_write that fails when
\* the file is the target ("none", "create", "write", "copy", "replace").
Stored(exists, readable, content, fault) ==
    [exists |-> exists, readable |-> readable, content |-> content,
     fault |-> fault]

Absent == Stored(FALSE, FALSE, << >>, "none")

Plain(content) == Stored(TRUE, TRUE, content, "none")

Faults == {"none", "create", "write", "copy", "replace"}

\* path.with_suffix(path.suffix + ".bak")
BakPath(name) == Name(name.dot, name.stem, name.suffix \o ".bak")

\* The name of the k-th temporary file, "tmp" and a unique tail.
TempName(k) == Name(FALSE, "tmp" \o ToString(k), "")

\* A temporary file: whether it is still there, and its bytes.
Temp(exists, content) == [exists |-> exists, content |-> content]

\* What a write that fails may leave of a content: nothing, or all but its
\* last byte.
Prefixes(content) ==
    { << >>, SubSeq(content, 1, IF Len(content) = 0 THEN 0 ELSE Len(content) - 1) }

\* An event of the progress queue: ("step", (n, name)), ("error", "name: e"),
\* ("done", n) or ("fatal", e).
Progress(kind, n, name) == [kind |-> kind, n |-> n, name |-> name]

\* A file operation of the history: "read", "create", "write", "copy",
\* "replace", "remove", or "raise" when atomic_write raises.
Op(op, name) == [op |-> op, name |-> name]

\* atomic_write(path, content, make_backup) at place pc, temp_name the index of
\* its temporary file (0: none yet).
Call(place, path, content, make_backup, temp_name) ==
    [pc |-> place, path |-> path, content |-> content,
     make_backup |-> make_backup, temp_name |-> temp_name]

NoCall == Call("off", NoName, << >>, FALSE, 0)

(* -------------------------------- jobs -------------------------------- *)
\* The names a job's files have, in the order of the dict.
JobNames == << APy, BTxt, CPy >>

\* The names of the directory: the job's files and their backups.
DiskNames ==
    { JobNames[k] : k \in 1 .. Len(JobNames) }
    \cup { BakPath(JobNames[k]) : k \in 1 .. Len(JobNames) }

\* The contents drawn: the round trip's line, a capital, a longer word, the
\* empty file, no occurrence, "abb", an invalid byte, two lines, a CR-LF end.
Contents ==
    { FooBarFoo,
      << "F", "o", "o", " ", "f", "o", "o", "\n" >>,
      << "f", "o", "o", "b", "a", "r", " ", "f", "o", "o", "\n" >>,
      << >>,
      << "b", "a", "r", "\n" >>,
      << "a", "b", "b" >>,
      << "f", "o", "o", InvalidByte, "\n" >>,
      << "f", "o", "o", "\n", "f", "o", "o", "\n" >>,
      << "f", "o", "o", "\r", "\n" >> }

\* The variants of a job's first file: every content, a file that cannot be
\* opened, a file that is gone, and a file on which a step of atomic_write
\* fails.
FirstVariants ==
    { Plain(c) : c \in Contents }
    \cup { Stored(TRUE, FALSE, Foo, "none"), Absent }
    \cup { Stored(TRUE, TRUE, FooBarFoo, f) : f \in Faults }

\* The variants of a later file.
LaterVariants == { Plain(FooBarFoo), Plain(<< "b", "a", "r", "\n" >>) }

\* The edits drawn, [text, repl]: a plain one, one that changes nothing, a
\* replacement that holds the term, a deletion, a bad template, an edit that
\* makes a new occurrence, the empty term, "(", a regex wildcard and a term
\* that holds a line break.
Edits ==
    { [text |-> Foo, repl |-> Baz],
      [text |-> Foo, repl |-> Foo],
      [text |-> Foo, repl |-> FooFoo],
      [text |-> Foo, repl |-> << >>],
      [text |-> Foo, repl |-> BadRef],
      [text |-> << "a", "b" >>, repl |-> << "a" >>],
      [text |-> << >>, repl |-> Baz],
      [text |-> << "(" >>, repl |-> Baz],
      [text |-> << "f", ".", "o" >>, repl |-> Baz],
      [text |-> << "o", "\n", "f" >>, repl |-> Baz] }

\* find_opts as the dialog builds it.
FindOpts(text, case, regex, whole) ==
    [text |-> text, case |-> case, regex |-> regex, whole |-> whole]

\* Dicts that lack a key.
PartialOpts ==
    { [case |-> TRUE, regex |-> FALSE, whole |-> FALSE],
      [text |-> Foo, regex |-> FALSE, whole |-> FALSE],
      [text |-> Foo, case |-> TRUE, whole |-> FALSE],
      [text |-> Foo, case |-> TRUE, regex |-> FALSE],
      [text |-> Foo, case |-> TRUE, regex |-> TRUE] }

\* The directories drawn for a job of n files.
Disks(n) ==
    { [d \in DiskNames |->
          IF n >= 1 /\ d = JobNames[1] THEN first
          ELSE IF \E k \in 2 .. n : d = JobNames[k] THEN later
          ELSE Absent] :
      first \in FirstVariants, later \in LaterVariants }

\* The jobs drawn, [disk, file_map, find_opts, repl_text, backup].
Job(d, files, o, repl, bak) ==
    [disk |-> d, file_map |-> files, find_opts |-> o, repl_text |-> repl,
     backup |-> bak]

Jobs ==
    UNION { { Job(d, SubSeq(JobNames, 1, n), FindOpts(e.text, c, r, w),
                  e.repl, b) :
                  d \in Disks(n), e \in Edits, c \in BOOLEAN, r \in BOOLEAN,
                  w \in BOOLEAN, b \in BOOLEAN } :
            n \in 0 .. Min(MaxJobFiles, Len(JobNames)) }
    \cup
    { Job(d, << APy >>, o, Baz, FALSE) : d \in Disks(1), o \in PartialOpts }

\* No replace job exists.
ReplaceOff ==
    /\ disk = [d \in DiskNames |-> Absent]
    /\ temps = << >>
    /\ find_opts = FindOpts(<< >>, FALSE, FALSE, FALSE)
    /\ repl_text = << >>
    /\ backup = FALSE
    /\ file_map = << >>
    /\ progress_q = << >>
    /\ count = 0
    /\ idx = 0
    /\ rpc = "off"
    /\ aw = NoCall
    /\ log = << >>
    /\ runs = 0
    /\ disk0 = [d \in DiskNames |-> Absent]

\* No search has been asked for.
SearchOff ==
    /\ fsys = Tree(<< >>, Name(FALSE, "pkg", ""), << >>)
    /\ opts = Opts(FALSE, "needle", FALSE, TRUE, FALSE, DEFAULT_MAX_MATCHES)
    /\ include = {}
    /\ exclude = {}
    /\ stop_event = FALSE
    /\ pc = "off"
    /\ walk = << >>
    /\ candidates = << >>
    /\ futures = << >>
    /\ yielded = {}
    /\ stats = SearchStats(0, 0, 0)
    /\ out_q = << >>
    /\ walked = {}
    /\ extStop = FALSE
    /\ lastLen = 0


(* ------------------------------- Init --------------------------------- *)
Init ==
    /\ \E s \in Searches :
          /\ fsys = s.fs
          /\ opts = s.opts
          /\ include = s.globs.include
          /\ exclude = s.globs.exclude
    /\ stop_event = FALSE
    /\ pc = "new"
    /\ walk = << >>
    /\ candidates = << >>
    /\ futures = << >>
    /\ yielded = {}
    /\ stats = SearchStats(0, 0, 0)
    /\ out_q = << >>
    /\ walked = {}
    /\ extStop = FALSE
    /\ lastLen = 0
    /\ ReplaceOff

(* ------------------------------ actions ------------------------------- *)
\* SearchEngine(root, opts, include, exclude, stop_event): the pattern compiles
\* and the engine exists, or ValueError is raised to the caller.
Construct ==
    /\ pc = "new"
    /\ pc' = IF CompileRegex(opts) THEN "constructed" ELSE "raised"
    /\ UNCHANGED << config, rvars, stop_event, walk, candidates, futures, yielded,
                    stats, out_q, walked, extStop, lastLen >>

\* App._run_engine's except clause: the front-end reports the constructor's
\* error on its queue.  (A caller such as the test lets it propagate.)
ReportError ==
    /\ pc = "raised"
    /\ pc' = "reported"
    /\ out_q' = Append(out_q, Event("error", NoMatch, stats))
    /\ UNCHANGED << config, rvars, stop_event, walk, candidates, futures, yielded,
                    stats, walked, extStop, lastLen >>

\* engine.run(out_q) is called: os.walk starts at the root.
RunBegin ==
    /\ pc = "constructed"
    /\ pc' = "walk"
    /\ walk' = << << >> >>
    /\ UNCHANGED << config, rvars, stop_event, candidates, futures, yielded, stats,
                    out_q, walked, extStop, lastLen >>

\* One iteration of the os.walk loop with stop_event clear: prune dirnames,
\* append the candidates of the directory's files.
WalkDir ==
    /\ pc = "walk"
    /\ walk # << >>
    /\ ~stop_event
    /\ LET dir == Head(walk)
       IN /\ walk' = SubPaths(dir, PruneDirs(DirNames(dir))) \o Tail(walk)
          /\ candidates' = candidates \o DirCandidates(dir, FileNames(dir))
          /\ walked' = walked \cup {dir}
    /\ UNCHANGED << config, rvars, stop_event, pc, futures, yielded, stats, out_q,
                    extStop, lastLen >>

\* The walk is exhausted, or an iteration finds stop_event set and breaks:
\* total_candidates is set and the first progress event is put.
ScanEnd ==
    /\ pc = "walk"
    /\ walk = << >> \/ stop_event
    /\ stats' = [stats EXCEPT !.total_candidates = Len(candidates)]
    /\ out_q' = Append(out_q, Event("progress", NoMatch, stats'))
    /\ pc' = "submit"
    /\ UNCHANGED << config, rvars, stop_event, walk, candidates, futures, yielded,
                    walked, extStop, lastLen >>

\* ex.submit(self._search_content, p, arc, mem) for the next candidate.
Submit ==
    /\ pc = "submit"
    /\ Len(futures) < Len(candidates)
    /\ futures' = Append(futures, Task("pending", 0, << >>, Late(stop_event, FALSE), FALSE))
    /\ UNCHANGED << config, rvars, stop_event, pc, walk, candidates, yielded, stats,
                    out_q, walked, extStop, lastLen >>

\* The dict comprehension is complete: the as_completed loop starts.
SubmitEnd ==
    /\ pc = "submit"
    /\ Len(futures) = Len(candidates)
    /\ pc' = "collect"
    /\ UNCHANGED << config, rvars, stop_event, walk, candidates, futures, yielded,
                    stats, out_q, walked, extStop, lastLen >>

Running == { i \in 1 .. Len(futures) : futures[i].state = "running" }

Finished == { i \in 1 .. Len(futures) : futures[i].state = "finished" }

\* Mutant of TaskStart: a queued task is not started once stop_event is set,
\* and nothing cancels it.
TaskStartUnlessStopped(i) ==
    /\ futures[i].state = "pending"
    /\ ~stop_event
    /\ Cardinality(Running) < Workers
    /\ LET o == ReadLines(candidates[i])
           late == Late(futures[i].late.submit, stop_event)
       IN futures' = [futures EXCEPT ![i] =
             IF o.how = "scan" THEN Task("running", 0, << >>, late, FALSE)
             ELSE Task("finished", 0, << >>, late, o.how = "raise")]
    /\ UNCHANGED << config, rvars, stop_event, pc, walk, candidates, yielded, stats,
                    out_q, walked, extStop, lastLen >>

\* A worker thread takes pending task i and runs _search_content up to the
\* line loop: the content is read, or the call returns [] or raises.
TaskStart(i) ==
    /\ futures[i].state = "pending"
    /\ Cardinality(Running) < Workers
    /\ LET o == ReadLines(candidates[i])
           late == Late(futures[i].late.submit, stop_event)
       IN futures' = [futures EXCEPT ![i] =
             IF o.how = "scan" THEN Task("running", 0, << >>, late, FALSE)
             ELSE Task("finished", 0, << >>, late, o.how = "raise")]
    /\ UNCHANGED << config, rvars, stop_event, pc, walk, candidates, yielded, stats,
                    out_q, walked, extStop, lastLen >>

\* Mutant of TaskLine: enumerate(lines) without start=1.
TaskLineZeroBased(i) ==
    /\ futures[i].state = "running"
    /\ LET t == futures[i]
           c == candidates[i]
           o == ReadLines(c)
           n == t.pos + 1
       IN futures' = [futures EXCEPT ![i] =
             IF t.pos = Len(o.lines) THEN Task("finished", t.pos, t.res, t.late, FALSE)
             ELSE IF stop_event THEN Task("finished", t.pos, t.res, t.late, FALSE)
             ELSE IF o.scanFail = n THEN Task("finished", t.pos, t.res, t.late, TRUE)
             ELSE IF RegexSearch(o.lines[n])
                  THEN Task("running", n,
                            Append(t.res, Match(c.path, n - 1, c.is_archive, c.member)),
                            t.late, FALSE)
                  ELSE Task("running", n, t.res, t.late, FALSE)]
    /\ UNCHANGED << config, rvars, stop_event, pc, walk, candidates, yielded, stats,
                    out_q, walked, extStop, lastLen >>

\* One iteration of the line loop of task i, or its end: break on stop_event,
\* swallow an exception of the search, append a Match on a hit; then return
\* matches.
TaskLine(i) ==
    /\ futures[i].state = "running"
    /\ LET t == futures[i]
           c == candidates[i]
           o == ReadLines(c)
           n == t.pos + 1
       IN futures' = [futures EXCEPT ![i] =
             IF t.pos = Len(o.lines) THEN Task("finished", t.pos, t.res, t.late, FALSE)
             ELSE IF stop_event THEN Task("finished", t.pos, t.res, t.late, FALSE)
             ELSE IF o.scanFail = n THEN Task("finished", t.pos, t.res, t.late, TRUE)
             ELSE IF RegexSearch(o.lines[n])
                  THEN Task("running", n,
                            Append(t.res, Match(c.path, n, c.is_archive, c.member)),
                            t.late, FALSE)
                  ELSE Task("running", n, t.res, t.late, FALSE)]
    /\ UNCHANGED << config, rvars, stop_event, pc, walk, candidates, yielded, stats,
                    out_q, walked, extStop, lastLen >>

\* Mutant of MatchEvents: the matches are put last first.
MatchEventsReversed(res, st) ==
    [j \in 1 .. Len(res) |-> Event("match", res[Len(res) + 1 - j], st)]

RECURSIVE MatchEvents(_, _)
\* for m in res: out_q.put(("match", m))
MatchEvents(res, st) ==
    IF res = << >> THEN << >>
    ELSE << Event("match", Head(res), st) >> \o MatchEvents(Tail(res), st)

\* Mutant of CeilingReached: > for >=.
CeilingPassed == stats.matches_found > opts.max_matches

\* The ceiling test of the as_completed loop.
CeilingReached == stats.matches_found >= opts.max_matches

\* Mutant of AddResult: the tick is tested before scanned_files is counted up.
AddResultTickEarly(res) ==
    LET n == stats.scanned_files + 1
        st == [stats EXCEPT !.scanned_files = n, !.matches_found = @ + Len(res)]
        tick == IF stats.scanned_files % PROGRESS_EVERY = 0
                THEN << Event("progress", NoMatch,
                              [stats EXCEPT !.scanned_files = n]) >>
                ELSE << >>
    IN /\ stats' = st
       /\ out_q' = out_q \o tick \o MatchEvents(res, st)
       /\ lastLen' = Len(res)
       /\ pc' = "collect"
       /\ UNCHANGED stop_event

\* The rest of the loop body for a result res: count the task, put a progress
\* event every 50 completions, add and put the matches.
AddResult(res) ==
    LET n == stats.scanned_files + 1
        st == [stats EXCEPT !.scanned_files = n, !.matches_found = @ + Len(res)]
        tick == IF n % PROGRESS_EVERY = 0
                THEN << Event("progress", NoMatch,
                              [stats EXCEPT !.scanned_files = n]) >>
                ELSE << >>
    IN /\ stats' = st
       /\ out_q' = out_q \o tick \o MatchEvents(res, st)
       /\ lastLen' = Len(res)
       /\ pc' = "collect"
       /\ UNCHANGED stop_event

\* Mutant of Collect: the result is cut to the room left under the ceiling.
CollectCapped(i) ==
    /\ pc = "collect"
    /\ i \in Finished \ yielded
    /\ yielded' = yielded \cup {i}
    /\ IF stop_event
       THEN /\ pc' = "shutdown"
            /\ UNCHANGED << stop_event, stats, out_q, lastLen >>
       ELSE IF CeilingReached
       THEN /\ out_q' = Append(out_q, Event("warn", NoMatch, stats))
            /\ stop_event' = TRUE
            /\ pc' = "shutdown"
            /\ UNCHANGED << stats, lastLen >>
       ELSE AddResult(SubSeq(futures[i].res, 1,
                             Min(Len(futures[i].res),
                                 opts.max_matches - stats.matches_found)))
    /\ UNCHANGED << config, rvars, walk, candidates, futures, walked, extStop >>

\* Mutant of Collect: at the ceiling the warning is put, but stop_event is not
\* set and the loop goes on to the next completion.
CollectWarnOnly(i) ==
    /\ pc = "collect"
    /\ i \in Finished \ yielded
    /\ yielded' = yielded \cup {i}
    /\ IF stop_event
       THEN /\ pc' = "shutdown"
            /\ UNCHANGED << stop_event, stats, out_q, lastLen >>
       ELSE IF CeilingReached
       THEN /\ out_q' = Append(out_q, Event("warn", NoMatch, stats))
            /\ pc' = "collect"
            /\ UNCHANGED << stop_event, stats, lastLen >>
       ELSE AddResult(futures[i].res)
    /\ UNCHANGED << config, rvars, walk, candidates, futures, walked, extStop >>

\* as_completed yields finished future i: the body of the loop.
Collect(i) ==
    /\ pc = "collect"
    /\ i \in Finished \ yielded
    /\ yielded' = yielded \cup {i}
    /\ IF stop_event
       THEN /\ pc' = "shutdown"
            /\ UNCHANGED << stop_event, stats, out_q, lastLen >>
       ELSE IF CeilingReached
       THEN /\ out_q' = Append(out_q, Event("warn", NoMatch, stats))
            /\ stop_event' = TRUE
            /\ pc' = "shutdown"
            /\ UNCHANGED << stats, lastLen >>
       ELSE AddResult(futures[i].res)
    /\ UNCHANGED << config, rvars, walk, candidates, futures, walked, extStop >>

\* as_completed is exhausted: every future has been yielded.
CollectEnd ==
    /\ pc = "collect"
    /\ yielded = 1 .. Len(futures)
    /\ pc' = "shutdown"
    /\ UNCHANGED << config, rvars, stop_event, walk, candidates, futures, yielded,
                    stats, out_q, walked, extStop, lastLen >>

\* Mutant of Shutdown: shutdown(wait=False), done is put while tasks still run.
ShutdownNoWait ==
    /\ pc = "shutdown"
    /\ out_q' = Append(out_q, Event("done", NoMatch, stats))
    /\ pc' = "done"
    /\ UNCHANGED << config, rvars, stop_event, walk, candidates, futures, yielded,
                    stats, walked, extStop, lastLen >>

\* The with block exits: shutdown(wait=True) returns once every submitted task
\* has run to its end; then the done event is put.
Shutdown ==
    /\ pc = "shutdown"
    /\ Finished = 1 .. Len(futures)
    /\ out_q' = Append(out_q, Event("done", NoMatch, stats))
    /\ pc' = "done"
    /\ UNCHANGED << config, rvars, stop_event, walk, candidates, futures, yielded,
                    stats, walked, extStop, lastLen >>

\* The caller sets the stop event (the Stop button, a timeout).
ExternalStop ==
    /\ pc \notin {"raised", "reported", "done"}
    /\ ~stop_event
    /\ stop_event' = TRUE
    /\ extStop' = TRUE
    /\ UNCHANGED << config, rvars, pc, walk, candidates, futures, yielded, stats,
                    out_q, walked, lastLen >>

Next ==
    \/ Construct
    \/ ReportError
    \/ RunBegin
    \/ WalkDir
    \/ ScanEnd
    \/ Submit
    \/ SubmitEnd
    \/ \E i \in 1 .. Len(futures) : TaskStart(i)
    \/ \E i \in 1 .. Len(futures) : TaskLine(i)
    \/ \E i \in 1 .. Len(futures) : Collect(i)
    \/ CollectEnd
    \/ Shutdown
    \/ ExternalStop

Spec == Init /\ [][Next]_vars

\* A step of the thread that executes SearchEngine.run.
CoordinatorStep ==
    \/ RunBegin
    \/ WalkDir
    \/ ScanEnd
    \/ Submit
    \/ SubmitEnd
    \/ \E i \in 1 .. Len(futures) : Collect(i)
    \/ CollectEnd
    \/ Shutdown

\* A step of a worker thread of the pool.
WorkerStep ==
    \E i \in 1 .. Len(futures) : TaskStart(i) \/ TaskLine(i)

\* The scheduler lets the thread of run and the pool's threads take their
\* steps, and every read returns; the caller may or may not set the stop
\* event.
Fairness == WF_vars(CoordinatorStep) /\ WF_vars(WorkerStep)

SpecFair == Init /\ [][Next]_vars /\ Fairness


(* ====================================================================== *)
(* utils.read_file_lines and utils.atomic_write                           *)
(* ====================================================================== *)
job == << find_opts, repl_text, backup, file_map >>

worker == << progress_q, count, idx, rpc >>

\* read_file_lines(path) for a plain file: readlines() of the decoded text,
\* or [] when the open or the read raises.
read_file_lines(f) ==
    IF f.exists /\ f.readable THEN SplitLines(Decode(f.content), << >>)
    ELSE << >>

\* tempfile.NamedTemporaryFile(mode="w", dir=dir_name, delete=False): a new
\* empty file in the target's directory, or the call raises, outside the try.
CreateTemp ==
    /\ aw.pc = "create"
    /\ IF disk[aw.path].fault = "create"
       THEN /\ aw' = [aw EXCEPT !.pc = "raised"]
            /\ log' = Append(log, Op("raise", aw.path))
            /\ UNCHANGED temps
       ELSE /\ temps' = Append(temps, Temp(TRUE, << >>))
            /\ aw' = [aw EXCEPT !.pc = "write", !.temp_name = Len(temps) + 1]
            /\ log' = Append(log, Op("create", TempName(Len(temps) + 1)))
    /\ UNCHANGED << svars, disk, job, worker, runs, disk0 >>

\* tf.write(content) and the close of the with block: the temporary file holds
\* the encoded content, or the write raises with a part of it stored.  The with
\* block is outside the try: the exception leaves atomic_write at once.
WriteTemp ==
    /\ aw.pc = "write"
    /\ IF disk[aw.path].fault = "write"
       THEN /\ \E part \in Prefixes(Encode(aw.content)) :
                  temps' = [temps EXCEPT ![aw.temp_name].content = part]
            /\ aw' = [aw EXCEPT !.pc = "raised"]
            /\ log' = log \o << Op("write", TempName(aw.temp_name)),
                                Op("raise", aw.path) >>
       ELSE /\ temps' = [temps EXCEPT ![aw.temp_name].content = Encode(aw.content)]
            /\ aw' = [aw EXCEPT !.pc = "try"]
            /\ log' = Append(log, Op("write", TempName(aw.temp_name)))
    /\ UNCHANGED << svars, disk, job, worker, runs, disk0 >>

\* Mutant of BackupCopy: the backup is taken of the new content, as if the
\* copy came after the rename.
BackupCopyOfNew ==
    /\ aw.pc = "try"
    /\ LET f == disk[aw.path]
           bak == BakPath(aw.path)
       IN IF aw.make_backup /\ f.exists
          THEN /\ disk' = [disk EXCEPT ![bak] = Plain(temps[aw.temp_name].content)]
               /\ aw' = [aw EXCEPT !.pc = "replace"]
               /\ log' = Append(log, Op("copy", bak))
          ELSE /\ aw' = [aw EXCEPT !.pc = "replace"]
               /\ UNCHANGED << disk, log >>
    /\ UNCHANGED << svars, temps, job, worker, runs, disk0 >>

\* if make_backup and path.exists(): shutil.copy2(path, bak_path).  copy2 opens
\* the source first; a copy that fails later leaves the backup as it was or
\* with a part of the source.
BackupCopy ==
    /\ aw.pc = "try"
    /\ LET f == disk[aw.path]
           bak == BakPath(aw.path)
       IN IF aw.make_backup /\ f.exists
          THEN IF ~f.readable
               THEN /\ aw' = [aw EXCEPT !.pc = "except"]
                    /\ UNCHANGED << disk, log >>
               ELSE IF f.fault = "copy"
               THEN /\ \/ UNCHANGED disk
                       \/ \E part \in Prefixes(f.content) :
                             disk' = [disk EXCEPT ![bak] = Plain(part)]
                    /\ aw' = [aw EXCEPT !.pc = "except"]
                    /\ log' = Append(log, Op("copy", bak))
               ELSE /\ disk' = [disk EXCEPT ![bak] = Plain(f.content)]
                    /\ aw' = [aw EXCEPT !.pc = "replace"]
                    /\ log' = Append(log, Op("copy", bak))
          ELSE /\ aw' = [aw EXCEPT !.pc = "replace"]
               /\ UNCHANGED << disk, log >>
    /\ UNCHANGED << svars, temps, job, worker, runs, disk0 >>

\* Mutant of Rename: the content is written into the target in place, and a
\* failure leaves a part of it there.
RenameInPlace ==
    /\ aw.pc = "replace"
    /\ IF disk[aw.path].fault = "replace"
       THEN /\ \E part \in Prefixes(temps[aw.temp_name].content) :
                  disk' = [disk EXCEPT ![aw.path] =
                              Stored(TRUE, TRUE, part, @.fault)]
            /\ aw' = [aw EXCEPT !.pc = "except"]
            /\ UNCHANGED << temps, log >>
       ELSE /\ disk' = [disk EXCEPT ![aw.path] =
                           Stored(TRUE, TRUE, temps[aw.temp_name].content, @.fault)]
            /\ temps' = [temps EXCEPT ![aw.temp_name].exists = FALSE]
            /\ aw' = [aw EXCEPT !.pc = "returned"]
            /\ log' = Append(log, Op("replace", aw.path))
    /\ UNCHANGED << svars, job, worker, runs, disk0 >>

\* os.replace(temp_name, path): the target's name now names the temporary
\* file, in one step, or the call raises and nothing has changed.
Rename ==
    /\ aw.pc = "replace"
    /\ IF disk[aw.path].fault = "replace"
       THEN /\ aw' = [aw EXCEPT !.pc = "except"]
            /\ UNCHANGED << disk, temps, log >>
       ELSE /\ disk' = [disk EXCEPT ![aw.path] =
                           Stored(TRUE, TRUE, temps[aw.temp_name].content, @.fault)]
            /\ temps' = [temps EXCEPT ![aw.temp_name].exists = FALSE]
            /\ aw' = [aw EXCEPT !.pc = "returned"]
            /\ log' = Append(log, Op("replace", aw.path))
    /\ UNCHANGED << svars, job, worker, runs, disk0 >>

\* except Exception as e: remove the temporary file if it is there, raise e.
Cleanup ==
    /\ aw.pc = "except"
    /\ IF temps[aw.temp_name].exists
       THEN /\ temps' = [temps EXCEPT ![aw.temp_name].exists = FALSE]
            /\ log' = log \o << Op("remove", TempName(aw.temp_name)),
                                Op("raise", aw.path) >>
       ELSE /\ log' = Append(log, Op("raise", aw.path))
            /\ UNCHANGED temps
    /\ aw' = [aw EXCEPT !.pc = "raised"]
    /\ UNCHANGED << svars, disk, job, worker, runs, disk0 >>

\* The process is killed between two steps of atomic_write.
Crash ==
    /\ aw.pc \in {"create", "write", "try", "replace", "except"}
    /\ aw' = [aw EXCEPT !.pc = "crashed"]
    /\ UNCHANGED << svars, disk, temps, job, worker, log, runs, disk0 >>

\* The calls of atomic_write drawn: a target that is absent, empty, a text or
\* unreadable, with or without an older backup, and a failing step.
WriteTargets ==
    { Stored(e, r, c, f) :
          e \in BOOLEAN, r \in BOOLEAN, c \in {<< >>, FooBarFoo}, f \in Faults }
    \ { Stored(FALSE, r, c, f) : r \in BOOLEAN, c \in {FooBarFoo}, f \in Faults }

InitWrite ==
    /\ SearchOff
    /\ \E target \in WriteTargets, old \in {Absent, Plain(Foo)},
          content \in {<< >>, Baz, << "b", "a", "z", "\n" >>},
          make_backup \in BOOLEAN :
          /\ disk = [d \in DiskNames |->
                        IF d = APy THEN target
                        ELSE IF d = BakPath(APy) THEN old ELSE Absent]
          /\ aw = Call("create", APy, content, make_backup, 0)
    /\ disk0 = disk
    /\ temps = << >>
    /\ find_opts = FindOpts(<< >>, FALSE, FALSE, FALSE)
    /\ repl_text = << >>
    /\ backup = FALSE
    /\ file_map = << >>
    /\ progress_q = << >>
    /\ count = 0
    /\ idx = 0
    /\ rpc = "off"
    /\ log = << >>
    /\ runs = 0

NextWrite ==
    \/ CreateTemp
    \/ WriteTemp
    \/ BackupCopy
    \/ Rename
    \/ Cleanup
    \/ Crash

\* One call of atomic_write, from any of the targets drawn.
SpecWrite == InitWrite /\ [][NextWrite]_vars

(* ====================================================================== *)
(* ReplacementWorker.run                                                  *)
(* ====================================================================== *)
\* The start of run's try block raises: a key the code reads is missing
\* (KeyError), or the regex does not compile (re.error).  "whole" is read only
\* when "regex" is false.
SetupFails(o) ==
    IF ~({"text", "case", "regex"} \subseteq DOMAIN o) THEN TRUE
    ELSE IF o.regex THEN ~RegexCompiles(o.text)
    ELSE "whole" \notin DOMAIN o

\* Mutant of ReplaceMatcher: the literal is replaced by str.replace whatever
\* the case option says.
ReplaceMatcherExactLiteral(o) ==
    IF o.regex THEN Matcher(o.text, TRUE, ~o.case, FALSE)
    ELSE IF o.whole THEN Matcher(o.text, FALSE, ~o.case, TRUE)
    ELSE Matcher(o.text, FALSE, FALSE, FALSE)

\* The matcher the loop body replaces with: rx of the regex branch, rx of the
\* whole-word branch, or the literal (str.replace, or re.escape and
\* re.IGNORECASE).
ReplaceMatcher(o) ==
    IF o.regex THEN Matcher(o.text, TRUE, ~o.case, FALSE)
    ELSE IF o.whole THEN Matcher(o.text, FALSE, ~o.case, TRUE)
    ELSE Matcher(o.text, FALSE, ~o.case, FALSE)

\* repl_text goes through re's template in every branch but str.replace.
UsesTemplate(o) == o.regex \/ o.whole \/ ~o.case

\* Mutant of ReplaceSetup: after the fatal event the run still reports done.
ReplaceSetupFatalThenDone ==
    /\ rpc = "start"
    /\ IF SetupFails(find_opts)
       THEN /\ progress_q' = progress_q \o << Progress("fatal", 0, NoName),
                                              Progress("done", 0, NoName) >>
            /\ rpc' = "ended"
            /\ UNCHANGED << count, idx >>
       ELSE /\ count' = 0
            /\ idx' = 0
            /\ rpc' = "loop"
            /\ UNCHANGED progress_q
    /\ UNCHANGED << svars, disk, temps, job, aw, log, runs, disk0 >>

\* The worker thread starts run: term, flags and rx are set, or the outer
\* except puts the fatal event and run ends.
ReplaceSetup ==
    /\ rpc = "start"
    /\ IF SetupFails(find_opts)
       THEN /\ progress_q' = Append(progress_q, Progress("fatal", 0, NoName))
            /\ rpc' = "ended"
            /\ UNCHANGED << count, idx >>
       ELSE /\ count' = 0
            /\ idx' = 0
            /\ rpc' = "loop"
            /\ UNCHANGED progress_q
    /\ UNCHANGED << svars, disk, temps, job, aw, log, runs, disk0 >>

\* Mutant of ReplaceFile: the new text is written whether or not it differs
\* from the old one.
ReplaceFileAlwaysWrites ==
    /\ rpc = "loop"
    /\ idx < Len(file_map)
    /\ LET path == file_map[idx + 1]
           old_text == Join(read_file_lines(disk[path]))
           new_text == Sub(old_text, 1, ReplaceMatcher(find_opts), repl_text)
       IN /\ log' = Append(log, Op("read", path))
          /\ IF UsesTemplate(find_opts) /\ TemplateRaises(repl_text)
             THEN /\ progress_q' = Append(progress_q, Progress("error", 0, path))
                  /\ idx' = idx + 1
                  /\ UNCHANGED << rpc, aw >>
             ELSE /\ aw' = Call("create", path, new_text, backup, 0)
                  /\ rpc' = "write"
                  /\ UNCHANGED << progress_q, idx >>
    /\ UNCHANGED << svars, disk, temps, job, count, runs, disk0 >>

\* The loop body for the next file up to the call of atomic_write: the file is
\* read and the new text computed; an exception puts the error event, an
\* unchanged text the step event.
ReplaceFile ==
    /\ rpc = "loop"
    /\ idx < Len(file_map)
    /\ LET path == file_map[idx + 1]
           old_text == Join(read_file_lines(disk[path]))
           new_text == Sub(old_text, 1, ReplaceMatcher(find_opts), repl_text)
       IN /\ log' = Append(log, Op("read", path))
          /\ IF UsesTemplate(find_opts) /\ TemplateRaises(repl_text)
             THEN /\ progress_q' = Append(progress_q, Progress("error", 0, path))
                  /\ idx' = idx + 1
                  /\ UNCHANGED << rpc, aw >>
             ELSE IF new_text # old_text
             THEN /\ aw' = Call("create", path, new_text, backup, 0)
                  /\ rpc' = "write"
                  /\ UNCHANGED << progress_q, idx >>
             ELSE /\ progress_q' = Append(progress_q, Progress("step", idx + 1, path))
                  /\ idx' = idx + 1
                  /\ UNCHANGED << rpc, aw >>
    /\ UNCHANGED << svars, disk, temps, job, count, runs, disk0 >>

\* Mutant of ReplaceWritten: the file is counted whether or not it changed.
ReplaceWrittenCountsAll ==
    /\ rpc = "write"
    /\ aw.pc \in {"returned", "raised"}
    /\ count' = count + 1
    /\ progress_q' = Append(progress_q, Progress("step", idx + 1, aw.path))
    /\ idx' = idx + 1
    /\ rpc' = "loop"
    /\ aw' = NoCall
    /\ UNCHANGED << svars, disk, temps, job, log, runs, disk0 >>

\* atomic_write has returned: count += 1 and the step event.
ReplaceWritten ==
    /\ rpc = "write"
    /\ aw.pc = "returned"
    /\ count' = count + 1
    /\ progress_q' = Append(progress_q, Progress("step", idx + 1, aw.path))
    /\ idx' = idx + 1
    /\ rpc' = "loop"
    /\ aw' = NoCall
    /\ UNCHANGED << svars, disk, temps, job, log, runs, disk0 >>

\* atomic_write has raised: the inner except puts the error event, and the
\* loop goes on.
ReplaceFailed ==
    /\ rpc = "write"
    /\ aw.pc = "raised"
    /\ progress_q' = Append(progress_q, Progress("error", 0, aw.path))
    /\ idx' = idx + 1
    /\ rpc' = "loop"
    /\ aw' = NoCall
    /\ UNCHANGED << svars, disk, temps, job, count, log, runs, disk0 >>

\* The loop is over: the done event with the count.
ReplaceDone ==
    /\ rpc = "loop"
    /\ idx = Len(file_map)
    /\ progress_q' = Append(progress_q, Progress("done", count, NoName))
    /\ rpc' = "ended"
    /\ UNCHANGED << svars, disk, temps, job, count, idx, aw, log, runs, disk0 >>

\* run_replace once more: a new worker and a new queue for the same job, on
\* the files as the run before left them.
ReplaceAgain ==
    /\ rpc = "ended"
    /\ runs < MaxRuns
    /\ rpc' = "start"
    /\ runs' = runs + 1
    /\ progress_q' = << >>
    /\ count' = 0
    /\ idx' = 0
    /\ log' = << >>
    /\ disk0' = disk
    /\ UNCHANGED << svars, disk, temps, job, aw >>

InitReplace ==
    /\ SearchOff
    /\ \E j \in Jobs :
          /\ disk = j.disk
          /\ find_opts = j.find_opts
          /\ repl_text = j.repl_text
          /\ backup = j.backup
          /\ file_map = j.file_map
    /\ disk0 = disk
    /\ temps = << >>
    /\ progress_q = << >>
    /\ count = 0
    /\ idx = 0
    /\ rpc = "start"
    /\ aw = NoCall
    /\ log = << >>
    /\ runs = 1

NextReplace ==
    \/ ReplaceSetup
    \/ ReplaceFile
    \/ CreateTemp
    \/ WriteTemp
    \/ BackupCopy
    \/ Rename
    \/ Cleanup
    \/ ReplaceWritten
    \/ ReplaceFailed
    \/ ReplaceDone
    \/ ReplaceAgain

\* A replace job applied up to MaxRuns times.
SpecReplace == InitReplace /\ [][NextReplace]_vars


(* ====================================================================== *)
(* A search after a replace run                                           *)
(* ====================================================================== *)
\* The matcher SearchEngine.__init__ compiles from its options.
SearchMatcher(text, regex, whole_word, case) ==
    IF regex THEN Matcher(text, TRUE, ~case, FALSE)
    ELSE IF whole_word THEN Matcher(text, FALSE, ~case, TRUE)
    ELSE Matcher(text, FALSE, ~case, FALSE)

\* The lines of a content as the search sees them: per line the number of
\* occurrences of the matcher.
LinesFor(content, m) ==
    LET ls == SplitLines(Decode(content), << >>)
    IN [k \in 1 .. Len(ls) |-> Occurrences(ls[k], 1, m)]

\* A file of the job's directory as a file of the tree searched: its size is
\* the number of its bytes, and no content drawn holds a NUL byte.
AsSearched(name, f, m) ==
    File(name, TRUE, f.readable, Len(f.content), 0, LinesFor(f.content, m), 0,
         FALSE, << >>)

RECURSIVE Listing(_, _)
\* The files among the names that exist, in the names' order.
Listing(names, m) ==
    IF names = << >> THEN << >>
    ELSE (IF disk[Head(names)].exists
          THEN << AsSearched(Head(names), disk[Head(names)], m) >>
          ELSE << >>) \o Listing(Tail(names), m)

RECURSIVE TempListing(_, _)
\* The temporary files still in the directory, from the k-th on.
TempListing(k, m) ==
    IF k > Len(temps) THEN << >>
    ELSE (IF temps[k].exists
          THEN << AsSearched(TempName(k), Plain(temps[k].content), m) >>
          ELSE << >>) \o TempListing(k + 1, m)

\* The names of the directory in the order the walk lists them.
DirOrder ==
    JobNames \o [k \in 1 .. Len(JobNames) |-> BakPath(JobNames[k])]

\* After the replace run a search of the job's directory is started for the
\* replacement text: literal, case-sensitive, hidden files and archives off,
\* no globs, the default ceiling.
StartSearch ==
    /\ rpc = "ended"
    /\ pc = "off"
    /\ LET m == SearchMatcher(repl_text, FALSE, FALSE, TRUE)
       IN fsys' = Tree(Listing(DirOrder, m) \o TempListing(1, m),
                       Name(FALSE, "pkg", ""), << >>)
    /\ opts' = Opts(FALSE, "needle", FALSE, TRUE, FALSE, DEFAULT_MAX_MATCHES)
    /\ pc' = "new"
    /\ UNCHANGED << rvars, include, exclude, stop_event, walk, candidates,
                    futures, yielded, stats, out_q, walked, extStop, lastLen >>

\* The jobs of the round trip: "foo" replaced by "baz", literal and
\* case-sensitive, in one or two files.
RoundTripJobs ==
    UNION { { Job(d, SubSeq(JobNames, 1, n), FindOpts(Foo, TRUE, FALSE, FALSE),
                  Baz, b) : d \in Disks(n), b \in BOOLEAN } :
            n \in {1, 2} }

InitRoundTrip ==
    /\ SearchOff
    /\ \E j \in RoundTripJobs :
          /\ disk = j.disk
          /\ find_opts = j.find_opts
          /\ repl_text = j.repl_text
          /\ backup = j.backup
          /\ file_map = j.file_map
    /\ disk0 = disk
    /\ temps = << >>
    /\ progress_q = << >>
    /\ count = 0
    /\ idx = 0
    /\ rpc = "start"
    /\ aw = NoCall
    /\ log = << >>
    /\ runs = 1

\* One replace run, then one search that nobody stops.
NextRoundTrip ==
    \/ ReplaceSetup
    \/ ReplaceFile
    \/ CreateTemp
    \/ WriteTemp
    \/ BackupCopy
    \/ Rename
    \/ Cleanup
    \/ ReplaceWritten
    \/ ReplaceFailed
    \/ ReplaceDone
    \/ StartSearch
    \/ Construct
    \/ RunBegin
    \/ WalkDir
    \/ ScanEnd
    \/ Submit
    \/ SubmitEnd
    \/ \E i \in 1 .. Len(futures) : TaskStart(i)
    \/ \E i \in 1 .. Len(futures) : TaskLine(i)
    \/ \E i \in 1 .. Len(futures) : Collect(i)
    \/ CollectEnd
    \/ Shutdown

SpecRoundTrip == InitRoundTrip /\ [][NextRoundTrip]_vars


(* ====================================================================== *)
(* A search of many files                                                 *)
(* ====================================================================== *)
\* A root of n text files; every second one holds the pattern.
ManyTree(n) ==
    Tree([k \in 1 .. n |->
             Text(Name(FALSE, "f" \o ToString(k), ".py"), << k % 2 >>)],
         Name(FALSE, "pkg", ""), << >>)

\* The numbers of files drawn: one less than a progress tick needs, just
\* enough, and ManyFiles.
ManySizes ==
    {PROGRESS_EVERY - 1, PROGRESS_EVERY, ManyFiles}

InitMany ==
    /\ \E n \in ManySizes : fsys = ManyTree(n)
    /\ opts = Opts(FALSE, "needle", FALSE, TRUE, FALSE, DEFAULT_MAX_MATCHES)
    /\ include = {}
    /\ exclude = {}
    /\ stop_event = FALSE
    /\ pc = "new"
    /\ walk = << >>
    /\ candidates = << >>
    /\ futures = << >>
    /\ yielded = {}
    /\ stats = SearchStats(0, 0, 0)
    /\ out_q = << >>
    /\ walked = {}
    /\ extStop = FALSE
    /\ lastLen = 0
    /\ ReplaceOff

\* Every task submitted before task i has finished.
InTurn(i) == \A j \in 1 .. i - 1 : futures[j].state = "finished"

\* Every task submitted before task i has been consumed.
Oldest(i) == \A j \in 1 .. i - 1 : j \in yielded

\* The run over many files under one class of schedules: nobody sets the stop
\* event, the tasks execute one after the other and are consumed in the order
\* of submission.  (Spec has every schedule and the caller's stop, for trees
\* of up to four candidates.)
NextMany ==
    \/ Construct
    \/ RunBegin
    \/ WalkDir
    \/ ScanEnd
    \/ Submit
    \/ SubmitEnd
    \/ \E i \in 1 .. Len(futures) : InTurn(i) /\ TaskStart(i)
    \/ \E i \in 1 .. Len(futures) : TaskLine(i)
    \/ \E i \in 1 .. Len(futures) : Oldest(i) /\ Collect(i)
    \/ CollectEnd
    \/ Shutdown

SpecMany == InitMany /\ [][NextMany]_vars


(* ====================================================================== *)
(* Properties                                                             *)
(* ====================================================================== *)
\* The indices of the events of one kind in the output queue.
EventsOf(kind) == { j \in 1 .. Len(out_q) : out_q[j].kind = kind }

CountOf(kind) == Cardinality(EventsOf(kind))

\* q is a prefix of r.
IsPrefix(q, r) == Len(q) <= Len(r) /\ SubSeq(r, 1, Len(q)) = q

\* No task of the pool is executing or still queued.
PoolIdle == \A i \in 1 .. Len(futures) : futures[i].state = "finished"

(* ---------------------------------------------------------------------- *)
\* C1: a run puts exactly one done event; it is the last event of the queue,
\* and when it is there every candidate has been submitted and every
\* submitted task has finished (normal end, ceiling or external stop alike).
C1_DoneOnceLastPoolIdle ==
    /\ CountOf("done") <= 1
    /\ (pc = "done") <=> (CountOf("done") = 1)
    /\ CountOf("done") = 1 =>
          /\ out_q[Len(out_q)].kind = "done"
          /\ Len(futures) = Len(candidates)
          /\ PoolIdle

\* A run ended by the ceiling with a task the coordinator never consumed.
C1_Witness ==
    /\ pc = "done"
    /\ CountOf("warn") = 1
    /\ Len(futures) = 3
    /\ yielded # 1 .. Len(futures)

(* ---------------------------------------------------------------------- *)
\* C2: matches_found stays below max_matches + k, k the length of the result
\* that took it to or past the ceiling, and once matches_found >= max_matches
\* no step adds to it.
C2_Overshoot ==
    stats.matches_found >= opts.max_matches =>
        stats.matches_found < opts.max_matches + lastLen

C2_NoAddPastCeiling ==
    stats.matches_found >= opts.max_matches =>
        stats'.matches_found = stats.matches_found

C2_CeilingBound == [] C2_Overshoot /\ [][C2_NoAddPastCeiling]_vars

\* The ceiling is passed, not just reached: one task returned two matches.
C2_Witness ==
    /\ stats.matches_found > opts.max_matches
    /\ lastLen = 2

(* ---------------------------------------------------------------------- *)
\* The plain file a candidate names.
PlainFileOf(c) == FileAt(c.path)

\* The lines of a content that hold the pattern.
HitLines(lines) == { n \in 1 .. Len(lines) : lines[n] > 0 }

\* A plain file the search reads and scans to its end: it exists, is
\* readable, at most the size cap, has no NUL byte in its first block, and
\* no line of it makes the search raise.
ScannedWhole(f) ==
    /\ f.statOk /\ f.readable
    /\ f.size <= SizeCap
    /\ ~(f.nul >= 1 /\ f.nul <= BLOCK_SIZE)
    /\ f.scanFail = 0

\* The finished run of the claim: max_matches = 1, no external stop, exactly
\* two candidates, both plain text files the search reads whose text holds
\* the search term.
CeilingOfOneRun ==
    /\ pc = "done" /\ opts.max_matches = 1 /\ ~extStop
    /\ Len(candidates) = 2
    /\ \A i \in 1 .. 2 :
          /\ ~candidates[i].is_archive
          /\ ScannedWhole(PlainFileOf(candidates[i]))
          /\ HitLines(PlainFileOf(candidates[i]).lines) # {}

\* C3 as claimed: the finished run shows exactly one warn event and exactly
\* one match event.
C3_Original == CeilingOfOneRun => CountOf("warn") = 1 /\ CountOf("match") = 1

\* C3 amended: exactly one warn event is put, and the match events are exactly
\* the matching lines of one of the two files, the one whose task was
\* consumed first; so there is exactly one match event when that file has one
\* matching line, and one per matching line otherwise.
C3_CeilingOfOne ==
    CeilingOfOneRun =>
        /\ CountOf("warn") = 1
        /\ \E i \in 1 .. 2 :
              /\ i \in yielded
              /\ { out_q[j].match : j \in EventsOf("match") } =
                    { Match(candidates[i].path, n, FALSE, NoName) :
                          n \in HitLines(PlainFileOf(candidates[i]).lines) }
              /\ CountOf("match") =
                    Cardinality(HitLines(PlainFileOf(candidates[i]).lines))

\* Two files with one matching line each: one warn, one match.
C3_Witness ==
    /\ CeilingOfOneRun
    /\ \A i \in 1 .. 2 :
          Cardinality(HitLines(PlainFileOf(candidates[i]).lines)) = 1
    /\ CountOf("warn") = 1
    /\ CountOf("match") = 1

(* ---------------------------------------------------------------------- *)
\* C4 as claimed: once stop_event is set, no task is handed to the pool and
\* no queued task begins to execute.
C4_NoWorkAfterStop ==
    \A i \in 1 .. Len(futures) :
        ~futures[i].late.submit /\ ~futures[i].late.start

(* ---------------------------------------------------------------------- *)
\* C5: at most one warn event; a warn event is the doing of the ceiling test
\* and comes with stop_event set; no match event follows it; and the queue
\* only grows, so the match events put before it stay.
C5_WarnState ==
    /\ CountOf("warn") <= 1
    /\ \A j \in EventsOf("warn") :
          /\ stop_event
          /\ stats.matches_found >= opts.max_matches
          /\ \A k \in EventsOf("match") : k < j

\* The coordinator takes a completion with stop_event clear and the ceiling
\* reached: it puts warn, sets stop_event and leaves the loop.
C5_WarnStep ==
    (pc = "collect" /\ yielded' # yielded /\ ~stop_event
     /\ stats.matches_found >= opts.max_matches) =>
        /\ out_q' = Append(out_q, Event("warn", NoMatch, stats))
        /\ stop_event'
        /\ pc' = "shutdown"

C5_QueueGrows == IsPrefix(out_q, out_q')

C5_WarnEndsMatches ==
    [] C5_WarnState /\ [][C5_WarnStep]_vars /\ [][C5_QueueGrows]_vars

\* A finished run with a match event and then the warn event.
C5_Witness ==
    /\ pc = "done"
    /\ CountOf("warn") = 1
    /\ CountOf("match") >= 1


(* ---------------------------------------------------------------------- *)
\* The options ask for a regular expression and the text is not one.
InvalidRegex == opts.regex /\ opts.text = "("

\* C6: with an invalid regular expression the constructor raises: the engine
\* never runs, so no directory is walked, no candidate exists, no task is
\* submitted (hence no file opened) and the engine puts no event; the queue is
\* empty when the error reaches the caller, and holds nothing but the
\* front-end's own report of that error afterwards.
C6_InvalidPatternRaises ==
    InvalidRegex =>
        /\ pc \in {"new", "raised", "reported"}
        /\ walked = {} /\ walk = << >>
        /\ candidates = << >>
        /\ futures = << >>
        /\ \A j \in 1 .. Len(out_q) : out_q[j].kind = "error"
        /\ pc # "reported" => out_q = << >>

\* The constructor has raised on an invalid regular expression.
C6_Witness == InvalidRegex /\ pc = "raised"

(* ---------------------------------------------------------------------- *)
\* The match events put for candidate i.
MatchEventsOf(i) ==
    { j \in EventsOf("match") :
          /\ out_q[j].match.path = candidates[i].path
          /\ out_q[j].match.is_archive = candidates[i].is_archive
          /\ out_q[j].match.member = candidates[i].member }

\* C7 as claimed: a candidate whose task failed (an exception was swallowed
\* while opening, extracting or scanning it) contributes no match event.
C7_FailureYieldsNothing ==
    \A i \in 1 .. Len(futures) :
        futures[i].raised => MatchEventsOf(i) = {}

(* ---------------------------------------------------------------------- *)
\* A name passes the include/exclude globs ("" is the pattern "*").
GlobPass(name) ==
    /\ include = {} \/ "" \in include \/ name.suffix \in include
    /\ "" \notin exclude /\ name.suffix \notin exclude

\* The files of the tree, each with its directory.
AllFiles ==
    { [dir |-> << >>, file |-> fsys.files[k]] : k \in 1 .. Len(fsys.files) }
    \cup
    { [dir |-> << fsys.subName >>, file |-> fsys.subFiles[k]] :
          k \in 1 .. Len(fsys.subFiles) }

\* The run ended with no cancellation and below the ceiling.
QuietRun ==
    pc = "done" /\ ~stop_event /\ stats.matches_found < opts.max_matches

\* The matches put on the queue.
MatchSet == { out_q[j].match : j \in EventsOf("match") }

\* C8 as claimed: the matches are one per (file, line) for the non-hidden
\* text files under the cap whose name passes the globs and the lines of
\* them that hold the pattern.
C8_ClaimedMatches ==
    UNION { { Match(Path(e.dir, e.file.name), n, FALSE, NoName) :
                  n \in HitLines(e.file.lines) } :
            e \in { x \in AllFiles : /\ ~x.file.name.dot
                                     /\ ScannedWhole(x.file)
                                     /\ GlobPass(x.file.name) } }

C8_Original ==
    QuietRun => MatchSet = C8_ClaimedMatches
                /\ CountOf("match") = Cardinality(C8_ClaimedMatches)

\* The directory is reached by the walk: the root, or a subdirectory that is
\* neither pruned as hidden nor as a default ignore.
DirWalked(dir) ==
    \A k \in 1 .. Len(dir) :
        /\ opts.include_hidden \/ ~dir[k].dot
        /\ ~opts.use_default_ignores \/ dir[k] \notin DefaultIgnores

\* The file becomes a plain candidate.
Enumerated(e) ==
    /\ DirWalked(e.dir)
    /\ opts.include_hidden \/ ~e.file.name.dot
    /\ GlobPass(e.file.name)

\* The lines scanned before a failure of the search, if any.
ScannedLines(lines, scanFail) ==
    { n \in HitLines(lines) : scanFail = 0 \/ n < scanFail }

\* The matches of the plain files: enumerated, existing, readable, under the
\* cap and without a NUL byte in the first block.
PlainMatches ==
    UNION { { Match(Path(e.dir, e.file.name), n, FALSE, NoName) :
                  n \in ScannedLines(e.file.lines, e.file.scanFail) } :
            e \in { x \in AllFiles :
                        /\ Enumerated(x)
                        /\ x.file.statOk /\ x.file.readable
                        /\ x.file.size <= SizeCap
                        /\ ~(x.file.nul >= 1 /\ x.file.nul <= BLOCK_SIZE) } }

\* The entries of the zip archives listed: search_archives is set, the
\* archive is an enumerated file named *.zip that opens as a zip.
ListedMembers ==
    UNION { { [dir |-> e.dir, zip |-> e.file.name, m |-> e.file.members[k]] :
                  k \in { k \in 1 .. Len(e.file.members) :
                              /\ ~e.file.members[k].is_dir
                              /\ GlobPass(e.file.members[k].name) } } :
            e \in { x \in AllFiles :
                        /\ opts.search_archives
                        /\ Enumerated(x)
                        /\ x.file.name.suffix = ".zip"
                        /\ x.file.zipOk } }

\* The matches of the archive members: listed and extractable (no size cap
\* and no NUL test applies to them).
MemberMatches ==
    UNION { { Match(Path(e.dir, e.zip), n, TRUE, e.m.name) :
                  n \in ScannedLines(e.m.lines, e.m.scanFail) } :
            e \in { x \in ListedMembers : x.m.readable } }

\* C8 amended: in a run with no cancellation and below the ceiling the match
\* events are exactly one per (candidate, line): the plain files the walk
\* enumerates (directory not pruned, name hidden only with include_hidden,
\* name passing the globs) that exist, are readable, under the cap and not
\* binary, and, with search_archives, the extractable non-directory entries
\* passing the globs of the enumerated zip archives; the lines that hold the
\* pattern and precede any failure of the scan, with their 1-based number.
C8_ExactMatches ==
    QuietRun => /\ MatchSet = PlainMatches \cup MemberMatches
                /\ CountOf("match") = Cardinality(PlainMatches \cup MemberMatches)

\* A line with two occurrences in line 2 gave one Match with line_no 2, and
\* the file failing the globs gave none.
C8_Witness ==
    /\ QuietRun
    /\ fsys.files[1].lines = <<0, 2>>
    /\ exclude = {".txt"}
    /\ MatchSet = { Match(Path(<< >>, APy), 2, FALSE, NoName) }
    /\ CountOf("match") = 1


(* ---------------------------------------------------------------------- *)
\* The content a match was found in: the plain file, or the archive entry.
ContentOf(m) ==
    IF m.is_archive THEN MemberAt(FileAt(m.path), m.member) ELSE FileAt(m.path)

\* The content is binary (a NUL byte in its first 1024 bytes), unreadable or
\* larger than the 10 MiB cap.
Unsearchable(content) ==
    \/ content.nul >= 1 /\ content.nul <= 1024
    \/ ~content.readable
    \/ content.size > 10 * 1024 * 1024

\* C9 as claimed: no match event is put for unsearchable content, for every
\* kind of candidate, archive entries included.
C9_Original == \A m \in MatchSet : ~Unsearchable(ContentOf(m))

\* C9 amended: no match event is put for a plain-file candidate whose content
\* is unsearchable (the NUL test and the size cap are not applied to archive
\* entries).
C9_NoMatchInUnsearchableFile ==
    \A m \in MatchSet : ~m.is_archive => ~Unsearchable(ContentOf(m))

\* A match in a plain file at the edge of both tests: its first NUL byte is
\* just past the first block, or its size is exactly the cap.
C9_Witness ==
    /\ \E m \in MatchSet : ~m.is_archive /\ ContentOf(m).nul = 1025
    /\ pc = "done"

(* ---------------------------------------------------------------------- *)
\* The tree holds pack.zip, a zip archive whose entry hello.txt can be
\* extracted and has a line matching the pattern, hello.txt passes the globs,
\* and the run ended with no cancellation and below the ceiling.
ArchiveRun ==
    /\ QuietRun
    /\ \E e \in AllFiles :
          /\ e.dir = << >> /\ e.file.name = PackZip /\ e.file.zipOk
          /\ \E k \in 1 .. Len(e.file.members) :
                /\ e.file.members[k].name = HelloTxt
                /\ ~e.file.members[k].is_dir
                /\ e.file.members[k].readable
                /\ HitLines(e.file.members[k].lines) = {1}
    /\ GlobPass(HelloTxt)

\* The matches put for pack.zip, as a file or for its entries.
PackMatches == { m \in MatchSet : m.path = Path(<< >>, PackZip) }

HelloMatch == Match(Path(<< >>, PackZip), 1, TRUE, HelloTxt)

TargetOld == disk[aw.path] = disk0[aw.path]

\* The file at the target path holds the whole new content.
TargetNew ==
    /\ disk[aw.path].exists
    /\ disk[aw.path].content = Encode(aw.content)

(* ---------------------------------------------------------------------- *)
\* C11: at every point of a call of atomic_write, a crash or a failing step
\* included, the target path shows the complete old file or the complete new
\* content, and the one step that changes it is the rename of the temporary
\* file.
C11_OldOrNew == aw.pc # "off" => TargetOld \/ TargetNew

C11_OnlyRename ==
    disk'[aw.path] # disk[aw.path] =>
        /\ aw.pc = "replace"
        /\ aw'.pc = "returned"
        /\ disk'[aw.path].content = temps[aw.temp_name].content
        /\ temps[aw.temp_name].content = Encode(aw.content)

C11_AtomicTarget == [] C11_OldOrNew /\ [][C11_OnlyRename]_vars

\* The process was killed after the temporary file was created and before the
\* content was in it: the target still shows the old text.
C11_Witness ==
    /\ aw.pc = "crashed"
    /\ aw.temp_name = 1
    /\ temps[1].exists
    /\ temps[1].content # Encode(aw.content)
    /\ disk[aw.path].exists
    /\ disk[aw.path].content = FooBarFoo

(* ---------------------------------------------------------------------- *)
\* The temporary file of the call is still in the directory.
TempLeft == aw.temp_name # 0 /\ temps[aw.temp_name].exists

\* C12: when atomic_write has raised after its temporary file was created
\* (the write into it, the backup copy or the rename failed), the temporary
\* file is gone and the target is the file the call found.
C12_FailureCleansUp ==
    aw.pc = "raised" /\ aw.temp_name # 0 => ~TempLeft /\ TargetOld

(* ====================================================================== *)
(* Properties of a replace run                                            *)
(* ====================================================================== *)
\* The indices of the events of one kind in the progress queue.
ProgressOf(kind) == { j \in 1 .. Len(progress_q) : progress_q[j].kind = kind }

\* The operations of the history that are of one kind.
OpsOf(op) == { j \in 1 .. Len(log) : log[j].op = op }

\* The run is over and got past its setup.
RunOver == rpc = "ended" /\ ProgressOf("fatal") = {}

\* The read of the job's i-th file fails: the file is gone or cannot be opened.
ReadFailed(i) ==
    ~(disk0[file_map[i]].exists /\ disk0[file_map[i]].readable)

\* atomic_write raised for the job's i-th file.
WriteFailed(i) == \E j \in OpsOf("raise") : log[j].name = file_map[i]

\* An event of the kind is tagged with the job's i-th file.
Tagged(kind, i) == \E j \in ProgressOf(kind) : progress_q[j].name = file_map[i]

\* The rename put a new file at the path of the job's i-th file.
Renamed(i) == \E j \in OpsOf("replace") : log[j].name = file_map[i]

(* ---------------------------------------------------------------------- *)
\* C13: after a run, every file whose read or write failed has an error event
\* with its name, is as the run found it and is not counted, and every file
\* after it has its step or error event.
C13_ErrorPerFailedFile ==
    RunOver =>
        \A i \in 1 .. Len(file_map) :
            ReadFailed(i) \/ WriteFailed(i) =>
                /\ Tagged("error", i)
                /\ disk[file_map[i]] = disk0[file_map[i]]
                /\ ~Renamed(i)
                /\ \A k \in i + 1 .. Len(file_map) :
                      Tagged("step", k) \/ Tagged("error", k)

(* ---------------------------------------------------------------------- *)
\* C14: a run that got past its setup ends with one done event, the last of
\* the queue, after one step or error event per file in the job's order; its
\* count is the number of files the run renamed a new content onto, and a
\* file the run left as it was, or that has an error event, is not one of
\* them.  Before the end there is no done event.
C14_DoneCount ==
    /\ rpc # "ended" => ProgressOf("done") = {}
    /\ RunOver =>
          /\ ProgressOf("done") = {Len(progress_q)}
          /\ Len(progress_q) = Len(file_map) + 1
          /\ \A i \in 1 .. Len(file_map) :
                /\ progress_q[i].kind \in {"step", "error"}
                /\ progress_q[i].name = file_map[i]
                /\ Renamed(i) => progress_q[i].kind = "step"
                /\ ~Renamed(i) => disk[file_map[i]] = disk0[file_map[i]]
          /\ progress_q[Len(progress_q)].n =
                Cardinality({ i \in 1 .. Len(file_map) : Renamed(i) })

\* A run over two files: the rename onto the first failed, the second was
\* replaced, and done carries 1.
C14_Witness ==
    /\ RunOver
    /\ Len(file_map) = 2
    /\ Tagged("error", 1)
    /\ disk0[file_map[1]].fault = "replace"
    /\ Renamed(2)
    /\ disk[file_map[2]].content # disk0[file_map[2]].content
    /\ progress_q[3] = Progress("done", 1, NoName)

(* ---------------------------------------------------------------------- *)
\* The job cannot be set up: find_opts lacks a key run reads ("whole" is read
\* only for a non-regex job), or the regex has an unclosed parenthesis.
JobUnusable ==
    \/ "text" \notin DOMAIN find_opts
    \/ "case" \notin DOMAIN find_opts
    \/ "regex" \notin DOMAIN find_opts
    \/ /\ find_opts.regex
       /\ \E k \in 1 .. Len(find_opts.text) : find_opts.text[k] = "("
    \/ ~find_opts.regex /\ "whole" \notin DOMAIN find_opts

\* C15: a run whose setup fails puts the fatal event and nothing else, and
\* reads, backs up and writes no file; a fatal event is never in a queue with
\* any other event, and only a failing setup puts one.
C15_FatalAlone ==
    /\ rpc = "ended" /\ JobUnusable =>
          /\ progress_q = << Progress("fatal", 0, NoName) >>
          /\ log = << >>
          /\ disk = disk0
    /\ ProgressOf("fatal") # {} =>
          /\ progress_q = << Progress("fatal", 0, NoName) >>
          /\ JobUnusable
          /\ rpc = "ended"
    /\ rpc \in {"loop", "write"} => ~JobUnusable

\* A job without the key "whole" over a file that holds the term: the run
\* ended with the fatal event alone and the file as it was.
C15_Witness ==
    /\ rpc = "ended"
    /\ "whole" \notin DOMAIN find_opts
    /\ ~find_opts.regex
    /\ progress_q = << Progress("fatal", 0, NoName) >>
    /\ file_map = << APy >>
    /\ disk[APy] = Plain(FooBarFoo)

(* ---------------------------------------------------------------------- *)
\* The text a run reads from a file: nothing when the file cannot be read.
TextRead(f) == IF f.exists /\ f.readable THEN Decode(f.content) ELSE << >>

\* The job's pattern, as the options say: regex syntax, case folding and
\* word boundaries.
JobPattern ==
    Matcher(find_opts.text, find_opts.regex, ~find_opts.case,
            ~find_opts.regex /\ find_opts.whole)

\* The second application of a job that can be set up, to files that all can
\* be read and written, has ended.
SecondRunOver ==
    /\ runs = 2
    /\ rpc = "ended"
    /\ ~JobUnusable
    /\ \A i \in 1 .. Len(file_map) :
          /\ disk0[file_map[i]].exists /\ disk0[file_map[i]].readable
          /\ disk0[file_map[i]].fault = "none"

\* The run has put done with count 0 and has done nothing but read.
NothingChanged ==
    /\ progress_q # << >>
    /\ progress_q[Len(progress_q)] = Progress("done", 0, NoName)
    /\ \A j \in 1 .. Len(log) : log[j].op = "read"
    /\ disk = disk0

RECURSIVE MatchLinesOf(_, _)
MatchLinesOf(q, name) ==
    IF q = << >> THEN << >>
    ELSE (IF Head(q).kind = "match" /\ Head(q).match.path = Path(<< >>, name)
          THEN << Head(q).match.line_no >>
          ELSE << >>) \o MatchLinesOf(Tail(q), name)

\* The round trip of the claim has ended: a.py held the one line
\* "foo bar foo", "foo" was replaced by "baz" (literal, case-sensitive, not
\* whole-word), and the search for "baz" is done.
RoundTripOver ==
    /\ pc = "done"
    /\ file_map[1] = APy
    /\ disk0[APy] = Plain(FooBarFoo)
    /\ find_opts = FindOpts(Foo, TRUE, FALSE, FALSE)
    /\ repl_text = Baz

\* C17 as claimed: the file holds "baz bar baz" and the search has put two
\* match events for it.
C17_Original ==
    RoundTripOver =>
        /\ disk[APy].content = BazBarBaz
        /\ Len(MatchLinesOf(out_q, APy)) = 2

\* C17: the file holds "baz bar baz" and the search has put one match event
\* for it, for line 1: one per line that holds "baz", not one per occurrence.
\* A file of two lines "foo" gives two match events, for lines 1 and 2.
C17_RoundTrip ==
    /\ RoundTripOver =>
          /\ disk[APy].content = BazBarBaz
          /\ MatchLinesOf(out_q, APy) = << 1 >>
    /\ /\ pc = "done"
       /\ disk0[APy] = Plain(<< "f", "o", "o", "\n", "f", "o", "o", "\n" >>)
       => /\ disk[APy].content = << "b", "a", "z", "\n", "b", "a", "z", "\n" >>
          /\ MatchLinesOf(out_q, APy) = << 1, 2 >>

\* The round trip over a.py alone, with a backup, has ended with one match
\* event and the backup holding the old line.
C17_Witness ==
    /\ RoundTripOver
    /\ file_map = << APy >>
    /\ backup
    /\ disk[BakPath(APy)].content = FooBarFoo
    /\ disk[APy].content = BazBarBaz
    /\ MatchLinesOf(out_q, APy) = << 1 >>
    /\ CountOf("match") = 1

(* ====================================================================== *)
(* Properties of the search run's output stream                           *)
(* ====================================================================== *)
\* The candidate a match event is for.
CandidateOf(e) == Candidate(e.match.path, e.match.is_archive, e.match.member)

\* C18: in the output queue the match events of one candidate stand in
\* strictly ascending line order with no other event between them, and the
\* match events a step puts are those of the one task the coordinator consumes
\* in that step, so the groups stand in the order of consumption whatever the
\* order in which the tasks ran.
C18_GroupsInQueue ==
    \A j \in EventsOf("match") : \A k \in EventsOf("match") :
        j < k /\ CandidateOf(out_q[j]) = CandidateOf(out_q[k]) =>
            /\ out_q[j].match.line_no < out_q[k].match.line_no
            /\ \A l \in j .. k :
                  /\ out_q[l].kind = "match"
                  /\ CandidateOf(out_q[l]) = CandidateOf(out_q[j])

C18_GroupAtConsumption ==
    /\ IsPrefix(out_q, out_q')
    /\ \A j \in Len(out_q) + 1 .. Len(out_q') :
          out_q'[j].kind = "match" =>
              \E i \in 1 .. Len(futures) :
                  /\ i \notin yielded
                  /\ yielded' = yielded \cup {i}
                  /\ CandidateOf(out_q'[j]) = candidates[i]
                  /\ \A k \in EventsOf("match") :
                        CandidateOf(out_q[k]) # candidates[i]

C18_MatchOrder == [] C18_GroupsInQueue /\ [][C18_GroupAtConsumption]_vars

\* The task of b.txt, submitted second, was consumed first: its match stands
\* before the two matches of a.py, lines 1 and 2.
C18_Witness ==
    /\ pc = "done"
    /\ Len(candidates) = 2
    /\ EventsOf("match") = {2, 3, 4}
    /\ CandidateOf(out_q[2]) = candidates[2]
    /\ CandidateOf(out_q[3]) = candidates[1]
    /\ out_q[3].match.line_no = 1
    /\ out_q[4].match.line_no = 2

(* ---------------------------------------------------------------------- *)
\* The indices of the progress and done events of the output queue.
StatsEvents == EventsOf("progress") \cup EventsOf("done")

\* C19: the first event of a run is a progress event that carries
\* scanned_files = 0 and total_candidates = the number of candidates
\* enumerated; after it there is one progress event per multiple of
\* PROGRESS_EVERY that scanned_files has reached, put in the step that reached
\* it; and the scanned_files values of the progress and done events never
\* decrease along the queue.
C19_Events ==
    /\ pc \in {"new", "constructed", "walk", "raised", "reported"} =>
          EventsOf("progress") = {}
    /\ pc \in {"submit", "collect", "shutdown", "done"} =>
          /\ out_q[1].kind = "progress"
          /\ out_q[1].scanned = 0
          /\ out_q[1].total = Len(candidates)
          /\ CountOf("progress") = 1 + stats.scanned_files \div PROGRESS_EVERY
    /\ \A j \in StatsEvents : \A k \in StatsEvents :
          j < k => out_q[j].scanned <= out_q[k].scanned

C19_TickStep ==
    pc \in {"submit", "collect", "shutdown"} =>
        LET new == { j \in Len(out_q) + 1 .. Len(out_q') :
                        out_q'[j].kind = "progress" }
        IN IF /\ stats'.scanned_files # stats.scanned_files
              /\ stats'.scanned_files % PROGRESS_EVERY = 0
           THEN /\ Cardinality(new) = 1
                /\ \A j \in new : out_q'[j].scanned = stats'.scanned_files
           ELSE new = {}

C19_Progress == [] C19_Events /\ [][C19_TickStep]_vars

\* A run over 2 * PROGRESS_EVERY files has ended: three progress events, the
\* last put at the last completion.
C19_Witness ==
    /\ pc = "done"
    /\ stats.scanned_files = 2 * PROGRESS_EVERY
    /\ CountOf("progress") = 3
    /\ \E j \in EventsOf("progress") : out_q[j].scanned = PROGRESS_EVERY
    /\ \E j \in EventsOf("progress") : out_q[j].scanned = 2 * PROGRESS_EVERY

(* ---------------------------------------------------------------------- *)
\* C20 as claimed: a run that nobody stopped from outside and whose
\* matches_found reached max_matches has, by the time done is put, put a warn
\* event and set stop_event, whichever task crossed the ceiling.
C20_SelfCancel ==
    pc = "done" /\ ~extStop /\ CeilingReached =>
        /\ CountOf("warn") = 1
        /\ stop_event

(* ---------------------------------------------------------------------- *)
\* C21: no candidate lies under a pruned directory (a dot-directory without
\* include_hidden, a default-ignore directory with use_default_ignores), no
\* plain-file candidate has a hidden name without include_hidden, and the
\* name of every candidate (the file's name, the entry's name for an archive
\* member) passes the include/exclude globs.
C21_NoPrunedNoFiltered ==
    \A k \in 1 .. Len(candidates) :
        LET c == candidates[k]
        IN /\ DirWalked(c.path.dir)
           /\ ~c.is_archive /\ ~opts.include_hidden => ~c.path.name.dot
           /\ GlobPass(IF c.is_archive THEN c.member ELSE c.path.name)

\* The walk is over with nobody stopping it: the tree has a file in a
\* default-ignore directory and the hidden file of the root, and the hidden
\* file alone was enumerated.
C21_Witness ==
    /\ pc = "submit"
    /\ ~extStop
    /\ opts.use_default_ignores /\ opts.include_hidden
    /\ fsys.subName \in DefaultIgnores
    /\ fsys.subFiles # << >>
    /\ Len(candidates) = 1
    /\ candidates[1].path.name.dot

(* ---------------------------------------------------------------------- *)
\* The file names that end in a recognized archive suffix.
ArchiveSuffixes == {".zip", ".tar.gz", ".tgz"}

\* C22: a candidate with is_archive set exists only when search_archives is
\* set, and its parent file's name ends in .zip, .tar.gz or .tgz; with
\* search_archives unset no candidate and no match event has is_archive set.
C22_ArchiveMembers ==
    /\ \A k \in 1 .. Len(candidates) :
          candidates[k].is_archive =>
              /\ opts.search_archives
              /\ candidates[k].path.name.suffix \in ArchiveSuffixes
              /\ candidates[k].member # NoName
    /\ \A j \in EventsOf("match") :
          out_q[j].match.is_archive =>
              /\ opts.search_archives
              /\ out_q[j].match.path.name.suffix \in ArchiveSuffixes

\* A run over a zip archive with search_archives set has ended: the archive
\* and its entry are candidates, and a match of the entry was put.
C22_Witness ==
    /\ pc = "done"
    /\ ~extStop
    /\ opts.search_archives
    /\ \E i \in 1 .. Len(candidates) :
          /\ candidates[i].is_archive
          /\ candidates[i].path.name.suffix = ".zip"
    /\ \E j \in EventsOf("match") : out_q[j].match.is_archive

(* ---------------------------------------------------------------------- *)
\* The worker is about to deal with the next file of the job, and the text
\* the replacement computes for it is the text read from it.
TextStays ==
    /\ rpc = "loop"
    /\ idx < Len(file_map)
    /\ ~(UsesTemplate(find_opts) /\ TemplateRaises(repl_text))
    /\ LET old == TextRead(disk[file_map[idx + 1]])
       IN Sub(old, 1, JobPattern, repl_text) = old

\* C23: in a replace run, dealing with a file whose computed text equals the
\* text read from it creates no temporary file, creates or changes no backup,
\* does not rename over the target, leaves the count alone and puts the
\* file's step event and nothing else.
C23_SkipStep ==
    TextStays =>
        /\ disk' = disk
        /\ temps' = temps
        /\ count' = count
        /\ aw' = NoCall
        /\ rpc' = "loop"
        /\ progress_q' = Append(progress_q,
                                Progress("step", idx + 1, file_map[idx + 1]))
        /\ \A j \in Len(log) + 1 .. Len(log') : log'[j].op = "read"

C23_UnchangedUntouched == [][C23_SkipStep]_vars

\* A run with backups over two files has ended: the first was rewritten and
\* backed up, the second, which holds no match, has its step event, is as the
\* run found it, has no backup, and nothing but a read was done on it.
C23_Witness ==
    /\ RunOver
    /\ runs = 1
    /\ backup
    /\ Len(file_map) = 2
    /\ file_map[1] # file_map[2]
    /\ Renamed(1)
    /\ disk0[file_map[2]].exists /\ disk0[file_map[2]].readable
    /\ disk0[file_map[2]].content # << >>
    /\ Occurrences(TextRead(disk0[file_map[2]]), 1, JobPattern) = 0
    /\ progress_q[2] = Progress("step", 2, file_map[2])
    /\ disk[file_map[2]] = disk0[file_map[2]]
    /\ ~disk[BakPath(file_map[2])].exists
    /\ temps # << >> /\ Len(temps) = 1
    /\ count = 1

(* ---------------------------------------------------------------------- *)
\* The file operations of a call of atomic_write that meets no failure, in
\* the claimed order: the temporary file is created and written, the target
\* is copied to the backup if make_backup is set and the target exists, the
\* temporary file is renamed over the target.
StepsClaimed ==
    << Op("create", TempName(1)), Op("write", TempName(1)) >>
    \o (IF aw.make_backup /\ disk0[aw.path].exists
        THEN << Op("copy", BakPath(aw.path)) >>
        ELSE << >>)
    \o << Op("replace", aw.path) >>

RECURSIVE StepsDone(_)
\* The creations, writes, copies and renames of a history, in order.
StepsDone(l) ==
    IF l = << >> THEN << >>
    ELSE (IF Head(l).op \in {"create", "write", "copy", "replace"}
          THEN << Head(l) >> ELSE << >>) \o StepsDone(Tail(l))

\* C24: a call of atomic_write does its steps in the order temp file written,
\* then backup copied (if make_backup and the target exists), then rename; the
\* copy and the rename find the whole new content in the temporary file; after
\* a call that returned with make_backup, the backup holds the content the
\* target had before the call; and without make_backup, or with no target to
\* copy, the backup is never created or changed.
C24_OrderAndBackup ==
    aw.pc # "off" =>
        /\ IsPrefix(StepsDone(log), StepsClaimed)
        /\ aw.pc = "returned" => StepsDone(log) = StepsClaimed
        /\ aw.pc \in {"try", "replace", "returned"} =>
              /\ aw.temp_name = 1
              /\ aw.pc # "returned" =>
                    temps[1] = Temp(TRUE, Encode(aw.content))
        /\ aw.pc = "returned" /\ aw.make_backup /\ disk0[aw.path].exists =>
              /\ disk[BakPath(aw.path)].exists
              /\ disk[BakPath(aw.path)].content = disk0[aw.path].content
        /\ ~(aw.make_backup /\ disk0[aw.path].exists) =>
              disk[BakPath(aw.path)] = disk0[BakPath(aw.path)]

\* A call with make_backup has returned: the target, which held "foo bar foo",
\* holds the new content, and the backup, which held an older "foo", holds
\* "foo bar foo".
C24_Witness ==
    /\ aw.pc = "returned"
    /\ aw.make_backup
    /\ disk0[aw.path].content = FooBarFoo
    /\ disk0[BakPath(aw.path)] = Plain(Foo)
    /\ disk[BakPath(aw.path)].content = FooBarFoo
    /\ disk[aw.path].content = Encode(aw.content)
    /\ Len(log) = 4

(* ---------------------------------------------------------------------- *)
\* The matcher SearchEngine compiles for the job's find options.
SearchPattern ==
    SearchMatcher(find_opts.text, find_opts.regex,
                  IF "whole" \in DOMAIN find_opts THEN find_opts.whole ELSE FALSE,
                  find_opts.case)

\* The lines of the text the worker read from the file it is writing, as the
\* search scans them.
LinesRead == SplitLines(TextRead(disk0[aw.path]), << >>)

\* The search with the job's options reports a match in the file being
\* written.
SearchHits ==
    \E k \in 1 .. Len(LinesRead) : Occurrences(LinesRead[k], 1, SearchPattern) > 0

\* C25 as claimed: for every pattern and option combination the replacer
\* changes a text only where the search matcher matches it, so a file the
\* replacer writes is a file in which the search reports a match.
C25_Original == rpc = "write" /\ ~JobUnusable => SearchHits

\* The term can match neither the empty text nor across a line break.
WithinLine ==
    /\ find_opts.text # << >>
    /\ \A k \in 1 .. Len(find_opts.text) : find_opts.text[k] # "\n"

\* C25: for every combination of regex, whole and case and every term the
\* replacer's matcher is the search's matcher (regex; else the escaped
\* literal between word boundaries; else the escaped literal; folding case
\* exactly when case is unset), and the text it writes is the text read with
\* the matches of that matcher in the whole text replaced; when the term can
\* match neither the empty text nor across a line break, a file it writes is
\* a file in which the search reports a match.
C25_SameMatcher ==
    ~JobUnusable =>
        /\ ReplaceMatcher(find_opts) = JobPattern
        /\ SearchPattern = JobPattern
        /\ rpc = "write" =>
              /\ aw.content = Sub(TextRead(disk0[aw.path]), 1, SearchPattern,
                                  repl_text)
              /\ WithinLine => SearchHits

\* A literal job that folds case is writing "Foo foo" with both words
\* replaced, and the search with the same options matches the line.
C25_Witness ==
    /\ rpc = "write"
    /\ ~find_opts.regex /\ ~find_opts.whole /\ ~find_opts.case
    /\ find_opts.text = Foo
    /\ repl_text = Baz
    /\ TextRead(disk0[aw.path]) = << "F", "o", "o", " ", "f", "o", "o", "\n" >>
    /\ aw.content = << "b", "a", "z", " ", "b", "a", "z", "\n" >>
    /\ SearchHits

(* ---------------------------------------------------------------------- *)
\* C26: under fair scheduling, every run of SearchEngine.run that has begun
\* puts its done event, whether nobody sets stop_event, the caller sets it at
\* any point or the ceiling does, and whatever candidates fail.
C26_DoneInTheEnd == pc = "walk" ~> pc = "done"

\* A run has ended after the caller set stop_event, with a candidate that
\* could not be read.
C26_Witness ==
    /\ pc = "done"
    /\ extStop
    /\ \E i \in 1 .. Len(futures) : futures[i].raised

====
